---- MODULE Spec2Model ----
(***************************************************************************)
(* Work-stealing scheduler of advanced_cohort_1/work_stealing/src/main.rs. *)
(*                                                                         *)
(* One main thread builds the scheduler, submits tasks (add_task) and      *)
(* calls run(); run() spawns one thread per worker and joins them.  Every  *)
(* access to shared memory (an atomic load or fetch_add/fetch_sub, a       *)
(* critical section of a queue mutex) is one step.  The VecDeque of a      *)
(* queue is touched only while the queue's mutex is held, so taking the    *)
(* mutex and the push_back/pop_back/pop_front under it are one step; the   *)
(* update of the atomic size counter, which size() reads without the       *)
(* mutex, is the next step and is taken together with the release of the   *)
(* mutex at the end of the function.                                       *)
(*                                                                         *)
(* The module also holds the two spin locks of the mutex tutorials, the    *)
(* coroutine scheduler and the range generator of coroutine_example, the   *)
(* traffic light of the state-machine examples, the condition-variable     *)
(* barrier of concurrency-rust-sync-example and the thread pool of         *)
(* work-stealing-example, each a program of its own with its own variables *)
(* and specification; a program that is not running keeps the state its    *)
(* constructor left.                                                       *)
(***************************************************************************)
EXTENDS Integers, Sequences, FiniteSets, TLC

\* Bounds of the model.
MaxWorkers == 3
MaxTasks == 3
MaxRuns == 2
\* Runs under fair scheduling: workers plus tasks added.
MaxFairLoad == 5
\* Spin-lock tutorials: threads spawned by main, iterations of each thread.
LockThreads == 2
LockIters == 2
\* Coroutine scheduler: coroutines spawned in all.
MaxCoroutines == 5
\* Range generator: start and end range over -MaxBelow .. GenMax; the calls of
\* next() that return None.
MaxBelow == 2
GenMin == 0 - MaxBelow
GenMax == 3
MaxNones == 3
\* Traffic light: events passed to transition.
MaxEvents == 4

\* work-stealing-example: pool sizes, jobs spawned, pops and steals.
MaxPoolThreads == 3
MaxJobs == 3
MaxRemovals == 3

\* concurrency-rust-sync-example: `let num_threads = 8;`.
num_threads == 8

\* Faulty variant: no worker is the designated one.
DesignatedWorkerNone == MaxWorkers

\* The designated worker: the literal 0 of `self.id != 0` / `self.id == 0`.
DesignatedWorker == 0
\* `let min_imbalance = 0;`
min_imbalance == 0

None == -1
NoOne == -1
MainThread == -2

VARIABLES
    num_workers,      \* Scheduler::new(num_workers)
    main_pc,          \* position of the main thread
    main_task,        \* the Task the main thread is handing to add_task
    main_worker,      \* add_task's worker_id
    tasks,            \* WorkStealingDeque.tasks of each queue (front first)
    size,             \* WorkStealingDeque.size of each queue
    lock,             \* holder of each queue's Mutex
    tasks_completed,  \* Scheduler.tasks_completed
    tasks_stolen,     \* Scheduler.tasks_stolen
    total_tasks,      \* Scheduler.total_tasks
    state,            \* Task.state of every task created so far, by task id
    pc,               \* position of each worker thread
    task,             \* the Task a worker thread owns (popped or stolen)
    completed,        \* all_work_complete's local `completed`
    idx,              \* position of the iterator over other_queues
    source_size,      \* steal_task's local `source_size`
    home,             \* history: the worker_id a task was submitted to, by id
    pop_count,        \* history: times pop()/steal() returned Some(task), by id
    taken_by,         \* history: the worker whose pop()/steal() returned it
    taken_how,        \* history: "pop" or "steal", the call that returned it
    stolen_incs,      \* history: tasks_stolen.fetch_add done for a task, by id
    exec_count,       \* history: times execute_task finished a task, by id
    exec_by,          \* history: the worker whose execute_task finished it
    runs,             \* history: calls of WorkStealingScheduler::run so far
    obs_ok,           \* history: all_work_complete read completed + stolen >= total
    obs_empty,        \* history: peer queues whose size() it then read as 0
    passed,           \* history: candidates steal_task skipped or got None from
    left_behind,      \* history: tasks that were in a worker's queue when it exited
    \* mutex-tutorial (cohort-7 and cohort-8)
    locked,           \* Mutex.locked, the latest value of the AtomicBool
    released,         \* the writes of data published by that value's store
    data_writes,      \* every value written to Mutex.data, oldest first
    view,             \* per thread: the latest write of data it must see
    thread_pc,        \* position of each thread; thread 0 is main
    iter,             \* iterations of the `for` loop a thread has finished
    tmp,              \* the value `*data += 1` has read
    final,            \* the value main's `tec_lock(|data| *data)` returned
    \* coroutine_example
    ready_queue,      \* Scheduler.ready_queue (front first), coroutines by id
    current,          \* Scheduler.current
    co_state,         \* Coroutine.state of every coroutine spawned so far
    func,             \* Coroutine.func is Some
    counter,          \* the shared AtomicUsize the spawned closures increment
    co_pc,            \* position of the single thread
    coro,             \* run's `coro` of `while let Some(mut coro)`
    current_local,    \* run's local `current`
    executed,         \* history: the coroutines whose function ran, in order
    co_trace,         \* history: the states each coroutine has been in
    \* coroutine_example, Generator and create_range_generator
    gen_pc,           \* position of the caller: in main, between or inside next()
    gen_state,        \* Generator.state
    gen_start,        \* create_range_generator's start
    gen_end,          \* create_range_generator's end, captured by the closure
    gen_current,      \* the closure's `current`
    gen_result,       \* next()'s `result`: <<>> is None, <<v>> is Some(v)
    gen_out,          \* history: the values next() returned in Some, in order
    gen_calls,        \* history: calls of the generator function
    gen_nones,        \* history: calls of next() that returned None
    \* state-machine-example (cohort-3 and cohort-4)
    light_pc,         \* main before or after TrafficLight::new
    light_state,      \* TrafficLight.state
    light_events,     \* history: the events passed to transition, in order
    light_trace,      \* history: the state after new and after each transition
    \* concurrency-rust-sync-example
    shared_data,      \* the integer in the Mutex shared_data
    semaphore,        \* the integer in the Mutex semaphore
    data_guard,       \* the thread that holds a guard of shared_data
    sem_guard,        \* the thread that holds a guard of semaphore
    waiters,          \* the threads blocked in condvar.wait
    sync_pc,          \* position of each spawned thread
    sync_main,        \* position of main
    notified,         \* history: the threads that were waiting at notify_all
    \* work-stealing-example
    pool_pc,          \* main: before ThreadPool::new, with a pool, or panicked
    workers,          \* ThreadPool.workers: the Vec `items` of each worker's deque
    next_job,         \* the next job main passes to spawn
    thread_index,     \* history: the thread_index the last spawn computed
    removed           \* history: what each pop or steal found and returned

vars == <<num_workers, main_pc, main_task, main_worker, tasks, size, lock,
          tasks_completed, tasks_stolen, total_tasks, state, pc, task,
          completed, idx, source_size, home, pop_count, taken_by,
          taken_how, stolen_incs, exec_count, exec_by, runs, obs_ok,
          obs_empty, passed, left_behind, gen_pc, gen_state, gen_start, gen_end,
          gen_current, gen_result, gen_out, gen_calls, gen_nones, light_pc,
          light_state, light_events, light_trace, shared_data, semaphore,
          data_guard, sem_guard, waiters, sync_pc, sync_main, notified, pool_pc,
          workers, next_job, thread_index, removed, locked, released, data_writes, view, thread_pc, iter,
          tmp, final, ready_queue, current, co_state, func, counter, co_pc,
          coro, current_local, executed, co_trace>>

\* The variables of the work-stealing scheduler and of the spin-lock programs.
schedv == <<num_workers, main_pc, main_task, main_worker, tasks, size, lock,
            tasks_completed, tasks_stolen, total_tasks, state, pc, task,
            completed, idx, source_size, home, pop_count, taken_by,
            taken_how, stolen_incs, exec_count, exec_by, runs, obs_ok,
            obs_empty, passed, left_behind>>
lockv == <<locked, released, data_writes, view, thread_pc, iter, tmp, final>>
corov == <<ready_queue, current, co_state, func, counter, co_pc, coro,
           current_local, executed, co_trace>>
genv == <<gen_pc, gen_state, gen_start, gen_end, gen_current, gen_result,
          gen_out, gen_calls, gen_nones>>
lightv == <<light_pc, light_state, light_events, light_trace>>
syncv == <<shared_data, semaphore, data_guard, sem_guard, waiters, sync_pc,
           sync_main, notified>>
poolv == <<pool_pc, workers, next_job, thread_index, removed>>
extrav == <<genv, lightv, syncv, poolv>>

sched == <<tasks_completed, tasks_stolen, total_tasks>>
queues == <<tasks, size, lock>>
fixed == <<num_workers, lockv, corov, extrav>>
mainv == <<fixed, main_pc, main_task, main_worker, runs>>
locals == <<completed, idx, source_size>>
taken == <<pop_count, taken_by, taken_how>>
obs == <<obs_ok, obs_empty>>
hist == <<home, taken, stolen_incs, exec_count, exec_by, obs, passed,
          left_behind>>

Workers == 0 .. (num_workers - 1)
TaskIds == DOMAIN state

\* Faulty variant: the filter `idx != worker_id` is missing.
OtherQueuesUnfiltered(w) == [i \in 1 .. num_workers |-> i - 1]

\* Scheduler::new: other_queues of worker w are all queues except its own.
OtherQueues(w) ==
    SelectSeq([i \in 1 .. num_workers |-> i - 1], LAMBDA j : j # w)

\* Faulty variant: the back element is read but stays in the deque.
pop_back_keep(q) ==
    IF q = <<>> THEN [task |-> None, rest |-> q]
    ELSE [task |-> q[Len(q)], rest |-> q]

\* Faulty variant: pop() takes the front element.
pop_back_front(q) ==
    IF q = <<>> THEN [task |-> None, rest |-> q]
    ELSE [task |-> Head(q), rest |-> Tail(q)]

\* VecDeque::pop_back as used by pop().
pop_back(q) ==
    IF q = <<>> THEN [task |-> None, rest |-> q]
    ELSE [task |-> q[Len(q)], rest |-> SubSeq(q, 1, Len(q) - 1)]

\* Faulty variant: the front element is read but stays in the deque.
pop_front_keep(q) ==
    IF q = <<>> THEN [task |-> None, rest |-> q]
    ELSE [task |-> Head(q), rest |-> q]

\* VecDeque::pop_front as used by steal().
pop_front(q) ==
    IF q = <<>> THEN [task |-> None, rest |-> q]
    ELSE [task |-> Head(q), rest |-> Tail(q)]

\* The spin-lock programs before main has run: Mutex::new(0).
LOCKED == TRUE
UNLOCKED == FALSE
LockThreadIds == 1 .. LockThreads

MutexNew ==
    /\ locked = UNLOCKED
    /\ released = 0
    /\ data_writes = <<0>>
    /\ view = [t \in 0 .. LockThreads |-> 1]
    /\ thread_pc = [t \in 0 .. LockThreads |-> "start"]
    /\ iter = [t \in LockThreadIds |-> 0]
    /\ tmp = [t \in LockThreadIds |-> 0]
    /\ final = None

\* coroutine_example: Scheduler::new().
CoroSchedulerNew ==
    /\ ready_queue = <<>>
    /\ current = None
    /\ co_state = <<>>
    /\ func = <<>>
    /\ counter = 0
    /\ co_pc = "main"
    /\ coro = None
    /\ current_local = None
    /\ executed = <<>>
    /\ co_trace = <<>>

SchedulerNew ==
    /\ num_workers \in 1 .. MaxWorkers
    /\ main_pc = "setup"
    /\ main_task = None
    /\ main_worker = None
    /\ tasks = [w \in Workers |-> <<>>]
    /\ size = [w \in Workers |-> 0]
    /\ lock = [w \in Workers |-> NoOne]
    /\ tasks_completed = 0
    /\ tasks_stolen = 0
    /\ total_tasks = 0
    /\ state = <<>>
    /\ pc = [w \in Workers |-> "idle"]
    /\ task = [w \in Workers |-> None]
    /\ completed = [w \in Workers |-> 0]
    /\ idx = [w \in Workers |-> 0]
    /\ source_size = [w \in Workers |-> 0]
    /\ home = <<>>
    /\ pop_count = <<>>
    /\ taken_by = <<>>
    /\ taken_how = <<>>
    /\ stolen_incs = <<>>
    /\ exec_count = <<>>
    /\ exec_by = <<>>
    /\ runs = 0
    /\ obs_ok = [w \in Workers |-> FALSE]
    /\ obs_empty = [w \in Workers |-> {}]
    /\ passed = [w \in Workers |-> {}]
    /\ left_behind = {}

\* coroutine_example main before it has made a generator.
GeneratorNone ==
    /\ gen_pc = "main"
    /\ gen_state = "None"
    /\ gen_start = 0
    /\ gen_end = 0
    /\ gen_current = 0
    /\ gen_result = <<>>
    /\ gen_out = <<>>
    /\ gen_calls = 0
    /\ gen_nones = 0

\* The programs that have no part in the scheduler, before they start.
\* state-machine-example main before TrafficLight::new.
TrafficLightNone ==
    /\ light_pc = "main"
    /\ light_state = "None"
    /\ light_events = <<>>
    /\ light_trace = <<>>

SyncThreads == 0 .. (num_threads - 1)

\* concurrency-rust-sync-example main: `Mutex::new(0)`, `Condvar::new()`,
\* `Mutex::new(0)`, no thread spawned yet.
SyncNew ==
    /\ shared_data = 0
    /\ semaphore = 0
    /\ data_guard = NoOne
    /\ sem_guard = NoOne
    /\ waiters = {}
    /\ sync_pc = [t \in SyncThreads |-> "unborn"]
    /\ sync_main = "main"
    /\ notified = {}

\* work-stealing-example main before ThreadPool::new.
ThreadPoolNone ==
    /\ pool_pc = "main"
    /\ workers = <<>>
    /\ next_job = 0
    /\ thread_index = None
    /\ removed = <<>>

OthersNew ==
    /\ MutexNew
    /\ CoroSchedulerNew
    /\ GeneratorNone
    /\ TrafficLightNone
    /\ SyncNew
    /\ ThreadPoolNone

Init == SchedulerNew /\ OthersNew

----------------------------------------------------------------------------
\* The main thread.

\* demo_work_stealing builds Task { id: i, state: Ready } and calls
\* add_task(worker_id, task); add_task first does total_tasks.fetch_add(1).
AddTask(worker_id) ==
    /\ main_pc = "setup"
    /\ total_tasks < MaxTasks
    /\ worker_id \in Workers
    /\ LET id == Cardinality(TaskIds) IN
        /\ state' = state @@ (id :> "Ready")
        /\ home' = home @@ (id :> worker_id)
        /\ pop_count' = pop_count @@ (id :> 0)
        /\ taken_by' = taken_by @@ (id :> NoOne)
        /\ taken_how' = taken_how @@ (id :> "none")
        /\ stolen_incs' = stolen_incs @@ (id :> 0)
        /\ exec_count' = exec_count @@ (id :> 0)
        /\ exec_by' = exec_by @@ (id :> NoOne)
        /\ main_task' = id
    /\ main_worker' = worker_id
    /\ total_tasks' = total_tasks + 1
    /\ main_pc' = "push"
    /\ UNCHANGED <<fixed, runs, queues, tasks_completed, tasks_stolen, pc, task,
                   locals, obs, passed, left_behind>>

\* Faulty variant: push puts the task at the front of the deque.
PushFront ==
    /\ main_pc = "push"
    /\ lock[main_worker] = NoOne
    /\ lock' = [lock EXCEPT ![main_worker] = MainThread]
    /\ tasks' = [tasks EXCEPT ![main_worker] = <<main_task>> \o @]
    /\ main_task' = None
    /\ main_pc' = "push_size"
    /\ UNCHANGED <<fixed, runs, main_worker, size, sched, state, pc, task,
                   locals, hist>>

\* WorkStealingDeque::push: lock the mutex and push_back.
PushBack ==
    /\ main_pc = "push"
    /\ lock[main_worker] = NoOne
    /\ lock' = [lock EXCEPT ![main_worker] = MainThread]
    /\ tasks' = [tasks EXCEPT ![main_worker] = Append(@, main_task)]
    /\ main_task' = None
    /\ main_pc' = "push_size"
    /\ UNCHANGED <<fixed, runs, main_worker, size, sched, state, pc, task,
                   locals, hist>>

\* WorkStealingDeque::push: size.fetch_add(1), then the guard is dropped.
PushSize ==
    /\ main_pc = "push_size"
    /\ size' = [size EXCEPT ![main_worker] = @ + 1]
    /\ lock' = [lock EXCEPT ![main_worker] = NoOne]
    /\ main_worker' = None
    /\ main_pc' = "setup"
    /\ UNCHANGED <<fixed, runs, main_task, tasks, sched, state, pc, task,
                   locals, hist>>

\* Faulty variant: run() starts by clearing the two progress counters.
RunClearsCounters ==
    /\ main_pc \in {"setup", "returned"}
    /\ runs < MaxRuns
    /\ runs' = runs + 1
    /\ main_pc' = "join"
    /\ pc' = [w \in Workers |-> "loop"]
    /\ obs_ok' = [w \in Workers |-> FALSE]
    /\ obs_empty' = [w \in Workers |-> {}]
    /\ tasks_completed' = 0
    /\ tasks_stolen' = 0
    /\ UNCHANGED <<fixed, main_task, main_worker, queues, total_tasks, state,
                   task, locals, home, taken, stolen_incs, exec_count, exec_by,
                   passed, left_behind>>

\* WorkStealingScheduler::run: spawn one thread per worker.  run() takes
\* &mut self and can be called again once it has returned.
Run ==
    /\ main_pc \in {"setup", "returned"}
    /\ runs < MaxRuns
    /\ runs' = runs + 1
    /\ main_pc' = "join"
    /\ pc' = [w \in Workers |-> "loop"]
    /\ obs_ok' = [w \in Workers |-> FALSE]
    /\ obs_empty' = [w \in Workers |-> {}]
    /\ UNCHANGED <<fixed, main_task, main_worker, queues, sched, state,
                   task, locals, home, taken, stolen_incs, exec_count, exec_by,
                   passed, left_behind>>

\* WorkStealingScheduler::run: every thread joined; run() returns.
Join ==
    /\ main_pc = "join"
    /\ \A w \in Workers : pc[w] = "done"
    /\ main_pc' = "returned"
    /\ UNCHANGED <<fixed, runs, main_task, main_worker, queues, sched, state,
                   pc, task, locals, hist>>

----------------------------------------------------------------------------
\* Worker::run, one thread per worker.

\* The tasks in worker w's own queue.
Queued(w) == {tasks[w][i] : i \in 1 .. Len(tasks[w])}

\* all_work_complete: `let completed = self.tasks_completed.load(..)`.
LoadCompleted(w) ==
    /\ pc[w] = "loop"
    /\ completed' = [completed EXCEPT ![w] = tasks_completed]
    /\ pc' = [pc EXCEPT ![w] = "awc_stolen"]
    /\ UNCHANGED <<mainv, queues, sched, state, task, idx, source_size, hist>>

\* Faulty variant: the comparison is `>` instead of `>=`.
LoadStolenStrict(w) ==
    /\ pc[w] = "awc_stolen"
    /\ LET stolen == tasks_stolen
           total == total_tasks
       IN  IF completed[w] + stolen > total
           THEN /\ obs_ok' = [obs_ok EXCEPT ![w] = TRUE]
                /\ IF OtherQueues(w) = <<>>
                   THEN /\ pc' = [pc EXCEPT ![w] = "done"]
                        /\ idx' = idx
                   ELSE /\ pc' = [pc EXCEPT ![w] = "wes"]
                        /\ idx' = [idx EXCEPT ![w] = 1]
           ELSE /\ obs_ok' = [obs_ok EXCEPT ![w] = FALSE]
                /\ pc' = [pc EXCEPT ![w] = "steal_check"]
                /\ idx' = idx
    /\ obs_empty' = [obs_empty EXCEPT ![w] = {}]
    /\ completed' = [completed EXCEPT ![w] = 0]
    /\ left_behind' = IF pc'[w] = "done" THEN left_behind \cup Queued(w)
                                         ELSE left_behind
    /\ UNCHANGED <<mainv, queues, sched, state, task, source_size, home, taken,
                   stolen_incs, exec_count, exec_by,
                   passed>>

\* all_work_complete: the loads of tasks_stolen and of total_system_tasks
\* (which no thread writes during run()), and the first conjunct of
\* `completed + stolen >= total && !self.work_exists_in_system()`.
\* With no peer queue the iterator of work_exists_in_system is empty and the
\* worker breaks out of its loop.
LoadStolen(w) ==
    /\ pc[w] = "awc_stolen"
    /\ LET stolen == tasks_stolen
           total == total_tasks
       IN  IF completed[w] + stolen >= total
           THEN /\ obs_ok' = [obs_ok EXCEPT ![w] = TRUE]
                /\ IF OtherQueues(w) = <<>>
                   THEN /\ pc' = [pc EXCEPT ![w] = "done"]
                        /\ idx' = idx
                   ELSE /\ pc' = [pc EXCEPT ![w] = "wes"]
                        /\ idx' = [idx EXCEPT ![w] = 1]
           ELSE /\ obs_ok' = [obs_ok EXCEPT ![w] = FALSE]
                /\ pc' = [pc EXCEPT ![w] = "steal_check"]
                /\ idx' = idx
    /\ obs_empty' = [obs_empty EXCEPT ![w] = {}]
    /\ completed' = [completed EXCEPT ![w] = 0]
    /\ left_behind' = IF pc'[w] = "done" THEN left_behind \cup Queued(w)
                                         ELSE left_behind
    /\ UNCHANGED <<mainv, queues, sched, state, task, source_size, home, taken,
                   stolen_incs, exec_count, exec_by,
                   passed>>

\* work_exists_in_system: one step of `other_queues.iter().any(|q| q.size() > 0)`.
\* A queue with size() > 0 ends the iteration: all_work_complete is false.
\* After the last queue all_work_complete is true and the worker breaks.
\* Faulty variant: the test of the closure is inverted.
PeerHasWorkInverted(w) == size[OtherQueues(w)[idx[w]]] = 0

\* Faulty variant: the closure never reports work.
PeerHasWorkNever(w) == FALSE

PeerHasWork(w) == size[OtherQueues(w)[idx[w]]] > 0

\* obs_ok and obs_empty keep what the evaluation in progress has read; they
\* are cleared when all_work_complete returns false.
WorkExists(w) ==
    /\ pc[w] = "wes"
    /\ IF PeerHasWork(w)
       THEN /\ pc' = [pc EXCEPT ![w] = "steal_check"]
            /\ idx' = [idx EXCEPT ![w] = 0]
            /\ obs_ok' = [obs_ok EXCEPT ![w] = FALSE]
            /\ obs_empty' = [obs_empty EXCEPT ![w] = {}]
       ELSE /\ obs_ok' = obs_ok
            /\ obs_empty' = [obs_empty EXCEPT ![w] =
                   IF size[OtherQueues(w)[idx[w]]] = 0
                   THEN @ \cup {OtherQueues(w)[idx[w]]} ELSE @]
            /\ IF idx[w] = Len(OtherQueues(w))
               THEN /\ pc' = [pc EXCEPT ![w] = "done"]
                    /\ idx' = [idx EXCEPT ![w] = 0]
               ELSE /\ pc' = pc
                    /\ idx' = [idx EXCEPT ![w] = @ + 1]
    /\ left_behind' = IF pc'[w] = "done" THEN left_behind \cup Queued(w)
                                         ELSE left_behind
    /\ UNCHANGED <<mainv, queues, sched, state, task, completed, source_size,
                   home, taken, stolen_incs, exec_count, exec_by,
                   passed>>

\* Faulty variant: the steal branch does not test the local queue's size.
StealCheckAlways(w) ==
    /\ pc[w] = "steal_check"
    /\ IF w # DesignatedWorker
       THEN IF w = DesignatedWorker \/ OtherQueues(w) = <<>>
            THEN /\ pc' = [pc EXCEPT ![w] = "pop"]
                 /\ idx' = idx
            ELSE /\ pc' = [pc EXCEPT ![w] = "st_src"]
                 /\ idx' = [idx EXCEPT ![w] = 1]
       ELSE /\ pc' = [pc EXCEPT ![w] = "pop"]
            /\ idx' = idx
    /\ UNCHANGED <<mainv, queues, sched, state, task, completed, source_size, hist>>

\* Faulty variant: steal_task starts at the last entry of other_queues.
StealCheckLast(w) ==
    /\ pc[w] = "steal_check"
    /\ IF w # DesignatedWorker /\ size[w] = 0
       THEN IF w = DesignatedWorker \/ OtherQueues(w) = <<>>
            THEN /\ pc' = [pc EXCEPT ![w] = "pop"]
                 /\ idx' = idx
            ELSE /\ pc' = [pc EXCEPT ![w] = "st_src"]
                 /\ idx' = [idx EXCEPT ![w] = Len(OtherQueues(w))]
       ELSE /\ pc' = [pc EXCEPT ![w] = "pop"]
            /\ idx' = idx
    /\ UNCHANGED <<mainv, queues, sched, state, task, completed, source_size, hist>>

\* `if self.id != 0 && self.local_queue.size() == 0`, then steal_task's
\* `if self.id == 0 { return None; }` and `self.other_queues.first()`.
StealCheck(w) ==
    /\ pc[w] = "steal_check"
    /\ IF w # DesignatedWorker /\ size[w] = 0
       THEN IF w = DesignatedWorker \/ OtherQueues(w) = <<>>
            THEN /\ pc' = [pc EXCEPT ![w] = "pop"]
                 /\ idx' = idx
            ELSE /\ pc' = [pc EXCEPT ![w] = "st_src"]
                 /\ idx' = [idx EXCEPT ![w] = 1]
       ELSE /\ pc' = [pc EXCEPT ![w] = "pop"]
            /\ idx' = idx
    /\ UNCHANGED <<mainv, queues, sched, state, task, completed, source_size, hist>>

\* steal_task: `let source_size = queue.size();` for the current candidate.
SourceSize(w) ==
    /\ pc[w] = "st_src"
    /\ source_size' = [source_size EXCEPT ![w] = size[OtherQueues(w)[idx[w]]]]
    /\ pc' = [pc EXCEPT ![w] = "st_our"]
    /\ UNCHANGED <<mainv, queues, sched, state, task, completed, idx, hist>>

\* The candidate queue steal_task is at.
Candidate(w) == OtherQueues(w)[idx[w]]

\* steal_task leaves the current candidate without a task (its size test
\* failed or its steal() returned None); passed is cleared when steal_task
\* returns.
Passed(w) ==
    IF idx[w] = Len(OtherQueues(w)) THEN {} ELSE passed[w] \cup {Candidate(w)}

\* The next candidate of steal_task, or `None` after the last: the worker
\* goes on to `self.local_queue.pop()`.
NextCandidate(w) ==
    IF idx[w] = Len(OtherQueues(w))
    THEN /\ pc' = [pc EXCEPT ![w] = "pop"]
         /\ idx' = [idx EXCEPT ![w] = 0]
    ELSE /\ pc' = [pc EXCEPT ![w] = "st_src"]
         /\ idx' = [idx EXCEPT ![w] = @ + 1]

\* Faulty variant: the size test is `>=` instead of `>`.
OurSizeWeak(w) ==
    /\ pc[w] = "st_our"
    /\ LET our_size == size[w] IN
       IF source_size[w] >= our_size + min_imbalance
       THEN /\ pc' = [pc EXCEPT ![w] = "steal"]
            /\ idx' = idx
            /\ source_size' = source_size
            /\ passed' = passed
       ELSE /\ NextCandidate(w)
            /\ source_size' = [source_size EXCEPT ![w] = 0]
            /\ passed' = [passed EXCEPT ![w] = Passed(w)]
    /\ UNCHANGED <<mainv, queues, sched, state, task, completed, home, taken,
                   stolen_incs, exec_count, exec_by, obs,
                   left_behind>>

\* steal_task: `let our_size = self.local_queue.size();` and
\* `if source_size > our_size + min_imbalance`.
OurSize(w) ==
    /\ pc[w] = "st_our"
    /\ LET our_size == size[w] IN
       IF source_size[w] > our_size + min_imbalance
       THEN /\ pc' = [pc EXCEPT ![w] = "steal"]
            /\ idx' = idx
            /\ source_size' = source_size
            /\ passed' = passed
       ELSE /\ NextCandidate(w)
            /\ source_size' = [source_size EXCEPT ![w] = 0]
            /\ passed' = [passed EXCEPT ![w] = Passed(w)]
    /\ UNCHANGED <<mainv, queues, sched, state, task, completed, home, taken, stolen_incs,
                   exec_count, exec_by, obs,
                   left_behind>>

\* WorkStealingDeque::steal on the candidate: lock, pop_front.  On None the
\* guard is dropped and steal returns None.
Steal(w) ==
    /\ pc[w] = "steal"
    /\ LET q == OtherQueues(w)[idx[w]]
           r == pop_front(tasks[q])
       IN  /\ lock[q] = NoOne
           /\ tasks' = [tasks EXCEPT ![q] = r.rest]
           /\ task' = [task EXCEPT ![w] = r.task]
           /\ IF r.task # None
              THEN /\ lock' = [lock EXCEPT ![q] = w]
                   /\ pc' = [pc EXCEPT ![w] = "steal_size"]
                   /\ pop_count' = [pop_count EXCEPT ![r.task] = @ + 1]
                   /\ taken_by' = [taken_by EXCEPT ![r.task] = w]
                   /\ taken_how' = [taken_how EXCEPT ![r.task] = "steal"]
              ELSE /\ lock' = lock
                   /\ pc' = [pc EXCEPT ![w] = "steal_none"]
                   /\ UNCHANGED taken
    /\ UNCHANGED <<mainv, size, sched, state, locals, home, stolen_incs,
                   exec_count, exec_by, obs, passed, left_behind>>

\* Faulty variant: steal() returns with the queue's mutex still locked.
StealSizeKeepsLock(w) ==
    /\ pc[w] = "steal_size"
    /\ LET q == OtherQueues(w)[idx[w]] IN
        /\ size' = [size EXCEPT ![q] = @ - 1]
        /\ lock' = lock
    /\ pc' = [pc EXCEPT ![w] = "stolen"]
    /\ idx' = [idx EXCEPT ![w] = 0]
    /\ source_size' = [source_size EXCEPT ![w] = 0]
    /\ passed' = [passed EXCEPT ![w] = {}]
    /\ UNCHANGED <<mainv, tasks, sched, state, task, completed, home, taken, stolen_incs,
                   exec_count, exec_by, obs,
                   left_behind>>

\* WorkStealingDeque::steal: size.fetch_sub(1); the guard is dropped and
\* steal_task returns the stolen task.
StealSize(w) ==
    /\ pc[w] = "steal_size"
    /\ LET q == OtherQueues(w)[idx[w]] IN
        /\ size' = [size EXCEPT ![q] = @ - 1]
        /\ lock' = [lock EXCEPT ![q] = NoOne]
    /\ pc' = [pc EXCEPT ![w] = "stolen"]
    /\ idx' = [idx EXCEPT ![w] = 0]
    /\ source_size' = [source_size EXCEPT ![w] = 0]
    /\ passed' = [passed EXCEPT ![w] = {}]
    /\ UNCHANGED <<mainv, tasks, sched, state, task, completed, home, taken, stolen_incs,
                   exec_count, exec_by, obs,
                   left_behind>>

\* Faulty variant: a steal() that returned None ends steal_task.
StealNoneGiveUp(w) ==
    /\ pc[w] = "steal_none"
    /\ pc' = [pc EXCEPT ![w] = "pop"]
    /\ idx' = [idx EXCEPT ![w] = 0]
    /\ source_size' = [source_size EXCEPT ![w] = 0]
    /\ passed' = [passed EXCEPT ![w] = {}]
    /\ UNCHANGED <<mainv, queues, sched, state, task, completed, home, taken,
                   stolen_incs, exec_count, exec_by, obs, left_behind>>

\* steal_task after steal() returned None: on to the next candidate.
StealNone(w) ==
    /\ pc[w] = "steal_none"
    /\ NextCandidate(w)
    /\ source_size' = [source_size EXCEPT ![w] = 0]
    /\ passed' = [passed EXCEPT ![w] = Passed(w)]
    /\ UNCHANGED <<mainv, queues, sched, state, task, completed, home, taken, stolen_incs,
                   exec_count, exec_by, obs, left_behind>>

\* Faulty variant: the stolen task is tagged but tasks_stolen is not incremented.
TagStolenNoCount(w) ==
    /\ pc[w] = "stolen"
    /\ state' = [state EXCEPT ![task[w]] = "Stolen"]
    /\ pc' = [pc EXCEPT ![w] = "exec"]
    /\ UNCHANGED <<mainv, queues, sched, task, locals, hist>>

\* Faulty variant: the thief pushes the stolen task onto its own queue
\* instead of executing it.
TagStolenRequeues(w) ==
    /\ pc[w] = "stolen"
    /\ lock[w] = NoOne
    /\ state' = [state EXCEPT ![task[w]] = "Stolen"]
    /\ tasks_stolen' = tasks_stolen + 1
    /\ stolen_incs' = [stolen_incs EXCEPT ![task[w]] = @ + 1]
    /\ tasks' = [tasks EXCEPT ![w] = Append(@, task[w])]
    /\ size' = [size EXCEPT ![w] = @ + 1]
    /\ task' = [task EXCEPT ![w] = None]
    /\ pc' = [pc EXCEPT ![w] = "loop"]
    /\ UNCHANGED <<mainv, lock, tasks_completed, total_tasks, locals,
                   home, taken, exec_count, exec_by, obs, passed, left_behind>>

\* Faulty variant: the thief also counts the stolen task into the total.
TagStolenCountsTotal(w) ==
    /\ pc[w] = "stolen"
    /\ state' = [state EXCEPT ![task[w]] = "Stolen"]
    /\ tasks_stolen' = tasks_stolen + 1
    /\ total_tasks' = total_tasks + 1
    /\ stolen_incs' = [stolen_incs EXCEPT ![task[w]] = @ + 1]
    /\ pc' = [pc EXCEPT ![w] = "exec"]
    /\ UNCHANGED <<mainv, queues, tasks_completed, task, locals,
                   home, taken, exec_count, exec_by, obs, passed, left_behind>>

\* `stolen_task.state = TaskState::Stolen; self.tasks_stolen.fetch_add(1, ..)`.
TagStolen(w) ==
    /\ pc[w] = "stolen"
    /\ state' = [state EXCEPT ![task[w]] = "Stolen"]
    /\ tasks_stolen' = tasks_stolen + 1
    /\ stolen_incs' = [stolen_incs EXCEPT ![task[w]] = @ + 1]
    /\ pc' = [pc EXCEPT ![w] = "exec"]
    /\ UNCHANGED <<mainv, queues, tasks_completed, total_tasks, task, locals,
                   home, taken, exec_count, exec_by, obs, passed, left_behind>>

\* Faulty variant: the task is completed but tasks_completed is not incremented.
ExecuteTaskNoCount(w) ==
    /\ pc[w] = "exec"
    /\ state' = [state EXCEPT ![task[w]] = "Completed"]
    /\ exec_count' = [exec_count EXCEPT ![task[w]] = @ + 1]
    /\ exec_by' = [exec_by EXCEPT ![task[w]] = w]
    /\ task' = [task EXCEPT ![w] = None]
    /\ pc' = [pc EXCEPT ![w] = "loop"]
    /\ UNCHANGED <<mainv, queues, sched, locals, home, taken, stolen_incs, obs,
                   passed, left_behind>>

\* Faulty variant: execute_task counts the task but leaves its state as it was.
ExecuteTaskKeepsState(w) ==
    /\ pc[w] = "exec"
    /\ state' = state
    /\ tasks_completed' = tasks_completed + 1
    /\ exec_count' = [exec_count EXCEPT ![task[w]] = @ + 1]
    /\ exec_by' = [exec_by EXCEPT ![task[w]] = w]
    /\ task' = [task EXCEPT ![w] = None]
    /\ pc' = [pc EXCEPT ![w] = "loop"]
    /\ UNCHANGED <<mainv, queues, tasks_stolen, total_tasks, locals, home,
                   taken, stolen_incs, obs, passed, left_behind>>

\* execute_task: after the sleep, `task.state = TaskState::Completed;
\* self.tasks_completed.fetch_add(1, ..)`; the task is dropped and the loop
\* continues.
ExecuteTask(w) ==
    /\ pc[w] = "exec"
    /\ state' = [state EXCEPT ![task[w]] = "Completed"]
    /\ tasks_completed' = tasks_completed + 1
    /\ exec_count' = [exec_count EXCEPT ![task[w]] = @ + 1]
    /\ exec_by' = [exec_by EXCEPT ![task[w]] = w]
    /\ task' = [task EXCEPT ![w] = None]
    /\ pc' = [pc EXCEPT ![w] = "loop"]
    /\ UNCHANGED <<mainv, queues, tasks_stolen, total_tasks, locals, home,
                   taken, stolen_incs, obs,
                   passed, left_behind>>

\* Faulty variant: pop() does size.fetch_sub(1) also when it found no task.
PopAlwaysDecrements(w) ==
    /\ pc[w] = "pop"
    /\ LET r == pop_back(tasks[w]) IN
        /\ lock[w] = NoOne
        /\ tasks' = [tasks EXCEPT ![w] = r.rest]
        /\ task' = [task EXCEPT ![w] = r.task]
        /\ IF r.task # None
           THEN /\ lock' = [lock EXCEPT ![w] = w]
                /\ pc' = [pc EXCEPT ![w] = "pop_size"]
                /\ pop_count' = [pop_count EXCEPT ![r.task] = @ + 1]
                /\ taken_by' = [taken_by EXCEPT ![r.task] = w]
                /\ taken_how' = [taken_how EXCEPT ![r.task] = "pop"]
                /\ size' = size
           ELSE /\ lock' = lock
                /\ pc' = [pc EXCEPT ![w] = "sleep"]
                /\ size' = [size EXCEPT ![w] = @ - 1]
                /\ UNCHANGED taken
    /\ UNCHANGED <<mainv, sched, state, locals, home, stolen_incs,
                   exec_count, exec_by, obs, passed, left_behind>>

\* WorkStealingDeque::pop on the local queue: lock, pop_back.  On None the
\* guard is dropped, pop returns None and the worker goes to sleep.
Pop(w) ==
    /\ pc[w] = "pop"
    /\ LET r == pop_back(tasks[w]) IN
        /\ lock[w] = NoOne
        /\ tasks' = [tasks EXCEPT ![w] = r.rest]
        /\ task' = [task EXCEPT ![w] = r.task]
        /\ IF r.task # None
           THEN /\ lock' = [lock EXCEPT ![w] = w]
                /\ pc' = [pc EXCEPT ![w] = "pop_size"]
                /\ pop_count' = [pop_count EXCEPT ![r.task] = @ + 1]
                /\ taken_by' = [taken_by EXCEPT ![r.task] = w]
                /\ taken_how' = [taken_how EXCEPT ![r.task] = "pop"]
           ELSE /\ lock' = lock
                /\ pc' = [pc EXCEPT ![w] = "sleep"]
                /\ UNCHANGED taken
    /\ UNCHANGED <<mainv, size, sched, state, locals, home, stolen_incs,
                   exec_count, exec_by, obs, passed, left_behind>>

\* WorkStealingDeque::pop: size.fetch_sub(1); the guard is dropped and the
\* worker calls execute_task on the popped task.
PopSize(w) ==
    /\ pc[w] = "pop_size"
    /\ size' = [size EXCEPT ![w] = @ - 1]
    /\ lock' = [lock EXCEPT ![w] = NoOne]
    /\ pc' = [pc EXCEPT ![w] = "exec"]
    /\ UNCHANGED <<mainv, tasks, sched, state, task, locals, hist>>

\* `thread::sleep(Duration::from_millis(50));` and back to the top of the loop.
Sleep(w) ==
    /\ pc[w] = "sleep"
    /\ pc' = [pc EXCEPT ![w] = "loop"]
    /\ UNCHANGED <<mainv, queues, sched, state, task, locals, hist>>

WorkerStep(w) ==
    /\ w \in Workers
    /\ \/ LoadCompleted(w)
       \/ LoadStolen(w)
       \/ WorkExists(w)
       \/ StealCheck(w)
       \/ SourceSize(w)
       \/ OurSize(w)
       \/ Steal(w)
       \/ StealSize(w)
       \/ StealNone(w)
       \/ TagStolen(w)
       \/ ExecuteTask(w)
       \/ Pop(w)
       \/ PopSize(w)
       \/ Sleep(w)

Next ==
    \/ \E worker_id \in 0 .. (MaxWorkers - 1) : AddTask(worker_id)
    \/ PushBack
    \/ PushSize
    \/ Run
    \/ Join
    \/ \E w \in 0 .. (MaxWorkers - 1) : WorkerStep(w)

Spec == Init /\ [][Next]_vars

\* add_task in the runs explored under fair scheduling: the number of workers
\* and the number of tasks added so far stay below MaxFairLoad together, so
\* three workers share at most two tasks and two workers at most three.
FairAddTask(worker_id) ==
    /\ num_workers + total_tasks < MaxFairLoad
    /\ AddTask(worker_id)

FairNext ==
    \/ \E worker_id \in 0 .. (MaxWorkers - 1) : FairAddTask(worker_id)
    \/ PushBack
    \/ PushSize
    \/ Run
    \/ Join
    \/ \E w \in 0 .. (MaxWorkers - 1) : WorkerStep(w)

\* The worker threads are scheduled fairly and the main thread's join returns
\* once every thread has finished.  A queue's mutex is held only by a remover
\* that found a task, so it is free from some point on and weak fairness is
\* enough for a thread waiting for it.
FairSpec ==
    /\ Init
    /\ [][FairNext]_vars
    /\ \A w \in 0 .. (MaxWorkers - 1) : WF_vars(WorkerStep(w))
    /\ WF_vars(Join)

----------------------------------------------------------------------------
(***************************************************************************)
(* Spin locks of cohort-8/mutex-tutorial and cohort-7/mutex-tutorial.      *)
(*                                                                         *)
(* Mutex.data is an UnsafeCell read and written without atomics, so which  *)
(* write a read returns depends on what the reader's earlier acquire       *)
(* operations have synchronized with.  data_writes is the history of the   *)
(* writes; view[t] is the latest write thread t is guaranteed to see.  A   *)
(* read by t returns the write at view[t] or any later one: when view[t]   *)
(* is not the last write the read races with the later writes and each of  *)
(* these outcomes is possible.  A store to `locked` with Release ordering  *)
(* publishes the storing thread's view, a store with Relaxed ordering      *)
(* publishes nothing; an Acquire load or a successful Acquire              *)
(* compare_exchange that reads the stored value takes over what it         *)
(* published.  thread::spawn and join synchronize in full.                 *)
(***************************************************************************)
Max(a, b) == IF a >= b THEN a ELSE b

\* What a store to `locked` by thread t publishes under an Ordering.
Published(ordering, t) == IF ordering = "Release" THEN view[t] ELSE 0

\* The writes of data a read by thread t can return.
Visible(t) == view[t] .. Len(data_writes)

\* main has joined every spawned thread.
JoinedView ==
    LET m == CHOOSE v \in {view[t] : t \in 0 .. LockThreads} :
                 \A t \in 0 .. LockThreads : view[t] <= v
    IN  m

\* cohort-8: `self.locked.store(UNLOCKED, Ordering::Relaxed);  // release lock`
cas_unlock_ordering == "Relaxed"

\* cohort-8 main: two thread::spawn, each running the `for` loop.
cas_spawn ==
    /\ thread_pc[0] = "start"
    /\ thread_pc' = [t \in 0 .. LockThreads |-> IF t = 0 THEN "join" ELSE "cas"]
    /\ UNCHANGED <<schedv, corov, extrav, locked, released, data_writes, view, iter, tmp, final>>

\* cohort-8 tec_lock: compare_exchange(UNLOCKED, LOCKED, Acquire, Relaxed).
\* On failure the loop prints and tries again.  A read-modify-write keeps
\* what the store it read from had published.
cas_compare_exchange(t) ==
    /\ thread_pc[t] = "cas"
    /\ IF locked = UNLOCKED
       THEN /\ locked' = LOCKED
            /\ view' = [view EXCEPT ![t] = Max(@, released)]
            /\ thread_pc' = [thread_pc EXCEPT ![t] = IF t = 0 THEN "get" ELSE "read"]
       ELSE UNCHANGED <<locked, view, thread_pc>>
    /\ UNCHANGED <<schedv, corov, extrav, released, data_writes, iter, tmp, final>>

\* The closure `|data| *data += 1`: the read of *data.
cas_closure_read(t) ==
    /\ thread_pc[t] = "read"
    /\ \E i \in Visible(t) :
        /\ tmp' = [tmp EXCEPT ![t] = data_writes[i]]
        /\ view' = [view EXCEPT ![t] = i]
    /\ thread_pc' = [thread_pc EXCEPT ![t] = "write"]
    /\ UNCHANGED <<schedv, corov, extrav, locked, released, data_writes, iter, final>>

\* The closure `|data| *data += 1`: the write of *data.
cas_closure_write(t) ==
    /\ thread_pc[t] = "write"
    /\ data_writes' = Append(data_writes, tmp[t] + 1)
    /\ view' = [view EXCEPT ![t] = Len(data_writes) + 1]
    /\ thread_pc' = [thread_pc EXCEPT ![t] = "unlock"]
    /\ UNCHANGED <<schedv, corov, extrav, locked, released, iter, tmp, final>>

\* cohort-8 tec_lock: `self.locked.store(UNLOCKED, Ordering::Relaxed);
\* return res;` and the next iteration of `for _ in 0..10000`.
cas_store_unlocked(t) ==
    /\ thread_pc[t] = "unlock"
    /\ locked' = UNLOCKED
    /\ released' = Published(cas_unlock_ordering, t)
    /\ IF t = 0
       THEN /\ thread_pc' = [thread_pc EXCEPT ![t] = "assert"]
            /\ iter' = iter
       ELSE /\ iter' = [iter EXCEPT ![t] = @ + 1]
            /\ thread_pc' = [thread_pc EXCEPT ![t] =
                   IF iter[t] + 1 = LockIters THEN "done" ELSE "cas"]
    /\ UNCHANGED <<schedv, corov, extrav, data_writes, view, tmp, final>>

\* cohort-8 main: `handle.join().unwrap()` for every handle, then
\* `mutex.tec_lock(|data| *data)`.
cas_join ==
    /\ thread_pc[0] = "join"
    /\ \A t \in LockThreadIds : thread_pc[t] = "done"
    /\ view' = [view EXCEPT ![0] = JoinedView]
    /\ thread_pc' = [thread_pc EXCEPT ![0] = "cas"]
    /\ UNCHANGED <<schedv, corov, extrav, locked, released, data_writes, iter, tmp, final>>

\* cohort-8 main: the closure `|data| *data` of the last tec_lock.
cas_closure_get ==
    /\ thread_pc[0] = "get"
    /\ \E i \in Visible(0) :
        /\ final' = data_writes[i]
        /\ view' = [view EXCEPT ![0] = i]
    /\ thread_pc' = [thread_pc EXCEPT ![0] = "unlock"]
    /\ UNCHANGED <<schedv, corov, extrav, locked, released, data_writes, iter, tmp>>

cas_thread(t) ==
    \/ cas_compare_exchange(t)
    \/ cas_closure_read(t)
    \/ cas_closure_write(t)
    \/ cas_store_unlocked(t)

CasNext ==
    \/ cas_spawn
    \/ cas_join
    \/ cas_closure_get
    \/ \E t \in 0 .. LockThreads : cas_thread(t)

\* The scheduler is constructed and never run while a spin-lock program runs.
CasInit == SchedulerNew /\ num_workers = 1 /\ OthersNew

CasSpec == CasInit /\ [][CasNext]_vars

\* cohort-7: `self.locked.store(LOCKED, Ordering::Release); //acquire lock`
\* and `self.locked.store(UNLOCKED, Ordering::Relaxed); //release lock`.
ls_lock_ordering == "Release"
ls_unlock_ordering == "Relaxed"

\* cohort-7 main: two thread::spawn, each running the `for` loop.
ls_spawn ==
    /\ thread_pc[0] = "start"
    /\ thread_pc' = [t \in 0 .. LockThreads |-> IF t = 0 THEN "join" ELSE "load"]
    /\ UNCHANGED <<schedv, corov, extrav, locked, released, data_writes, view, iter, tmp, final>>

\* cohort-7 tec_lock: one `self.locked.load(Ordering::Acquire)` of the while
\* loop.  Reading LOCKED spins; reading UNLOCKED leaves the loop.
ls_load(t) ==
    /\ thread_pc[t] = "load"
    /\ view' = [view EXCEPT ![t] = Max(@, released)]
    /\ thread_pc' = [thread_pc EXCEPT ![t] = IF locked # UNLOCKED THEN "load" ELSE "lock"]
    /\ UNCHANGED <<schedv, corov, extrav, locked, released, data_writes, iter, tmp, final>>

\* cohort-7 tec_lock: `self.locked.store(LOCKED, Ordering::Release)`, a step
\* of its own after the load ("a new thread can be yielded here").
ls_store_locked(t) ==
    /\ thread_pc[t] = "lock"
    /\ locked' = LOCKED
    /\ released' = Published(ls_lock_ordering, t)
    /\ thread_pc' = [thread_pc EXCEPT ![t] = IF t = 0 THEN "get" ELSE "read"]
    /\ UNCHANGED <<schedv, corov, extrav, data_writes, view, iter, tmp, final>>

\* The closure `|data| { *data += 1; }`: the read of *data.
ls_closure_read(t) ==
    /\ thread_pc[t] = "read"
    /\ \E i \in Visible(t) :
        /\ tmp' = [tmp EXCEPT ![t] = data_writes[i]]
        /\ view' = [view EXCEPT ![t] = i]
    /\ thread_pc' = [thread_pc EXCEPT ![t] = "write"]
    /\ UNCHANGED <<schedv, corov, extrav, locked, released, data_writes, iter, final>>

\* The closure `|data| { *data += 1; }`: the write of *data.
ls_closure_write(t) ==
    /\ thread_pc[t] = "write"
    /\ data_writes' = Append(data_writes, tmp[t] + 1)
    /\ view' = [view EXCEPT ![t] = Len(data_writes) + 1]
    /\ thread_pc' = [thread_pc EXCEPT ![t] = "unlock"]
    /\ UNCHANGED <<schedv, corov, extrav, locked, released, iter, tmp, final>>

\* cohort-7 tec_lock: `self.locked.store(UNLOCKED, Ordering::Relaxed); res`
\* and the next iteration of `for _ in 0..100`.
ls_store_unlocked(t) ==
    /\ thread_pc[t] = "unlock"
    /\ locked' = UNLOCKED
    /\ released' = Published(ls_unlock_ordering, t)
    /\ IF t = 0
       THEN /\ thread_pc' = [thread_pc EXCEPT ![t] = "assert"]
            /\ iter' = iter
       ELSE /\ iter' = [iter EXCEPT ![t] = @ + 1]
            /\ thread_pc' = [thread_pc EXCEPT ![t] =
                   IF iter[t] + 1 = LockIters THEN "done" ELSE "load"]
    /\ UNCHANGED <<schedv, corov, extrav, data_writes, view, tmp, final>>

\* cohort-7 main: `handle.join().unwrap()` for every handle, then
\* `mutex.tec_lock(|data| *data)`.
ls_join ==
    /\ thread_pc[0] = "join"
    /\ \A t \in LockThreadIds : thread_pc[t] = "done"
    /\ view' = [view EXCEPT ![0] = JoinedView]
    /\ thread_pc' = [thread_pc EXCEPT ![0] = "load"]
    /\ UNCHANGED <<schedv, corov, extrav, locked, released, data_writes, iter, tmp, final>>

\* cohort-7 main: the closure `|data| *data` of the asserted tec_lock.
ls_closure_get ==
    /\ thread_pc[0] = "get"
    /\ \E i \in Visible(0) :
        /\ final' = data_writes[i]
        /\ view' = [view EXCEPT ![0] = i]
    /\ thread_pc' = [thread_pc EXCEPT ![0] = "unlock"]
    /\ UNCHANGED <<schedv, corov, extrav, locked, released, data_writes, iter, tmp>>

ls_thread(t) ==
    \/ ls_load(t)
    \/ ls_store_locked(t)
    \/ ls_closure_read(t)
    \/ ls_closure_write(t)
    \/ ls_store_unlocked(t)

LoadStoreNext ==
    \/ ls_spawn
    \/ ls_join
    \/ ls_closure_get
    \/ \E t \in 0 .. LockThreads : ls_thread(t)

LoadStoreInit == SchedulerNew /\ num_workers = 1 /\ OthersNew

LoadStoreSpec == LoadStoreInit /\ [][LoadStoreNext]_vars

----------------------------------------------------------------------------
(***************************************************************************)
(* Scheduler of advanced_cohort_1/coroutine_example/src/main.rs: a single  *)
(* thread calls spawn and run; every statement of run and context_switch   *)
(* is one step.  A spawned closure increments the shared counter, as the   *)
(* closures of demo_basic_usage and demo_multiple_coroutines do.           *)
(***************************************************************************)
CoroutineIds == DOMAIN co_state
co_others == <<schedv, lockv, extrav>>

\* Faulty variant: spawn puts the coroutine at the front of ready_queue.
spawn_front ==
    /\ co_pc \in {"main", "returned"}
    /\ Cardinality(CoroutineIds) < MaxCoroutines
    /\ LET id == Cardinality(CoroutineIds) IN
        /\ co_state' = co_state @@ (id :> "Ready")
        /\ func' = func @@ (id :> TRUE)
        /\ co_trace' = co_trace @@ (id :> <<"Ready">>)
        /\ ready_queue' = <<id>> \o ready_queue
    /\ co_pc' = "main"
    /\ UNCHANGED <<co_others, current, counter, coro, current_local, executed>>

\* Scheduler::spawn: Coroutine::new(func) has state Ready and func Some;
\* `self.ready_queue.push_back(coro)`.
spawn ==
    /\ co_pc \in {"main", "returned"}
    /\ Cardinality(CoroutineIds) < MaxCoroutines
    /\ LET id == Cardinality(CoroutineIds) IN
        /\ co_state' = co_state @@ (id :> "Ready")
        /\ func' = func @@ (id :> TRUE)
        /\ co_trace' = co_trace @@ (id :> <<"Ready">>)
        /\ ready_queue' = Append(ready_queue, id)
    /\ co_pc' = "main"
    /\ UNCHANGED <<co_others, current, counter, coro, current_local, executed>>

\* The call of Scheduler::run.
run_call ==
    /\ co_pc \in {"main", "returned"}
    /\ co_pc' = "pop"
    /\ UNCHANGED <<co_others, ready_queue, current, co_state, func, counter,
                   coro, current_local, executed, co_trace>>

\* `while let Some(mut coro) = self.ready_queue.pop_front()`; on None run
\* returns.
run_pop_front ==
    /\ co_pc = "pop"
    /\ LET r == pop_front(ready_queue) IN
        /\ ready_queue' = r.rest
        /\ coro' = r.task
        /\ co_pc' = IF r.task = None THEN "returned" ELSE "set_current"
    /\ UNCHANGED <<co_others, current, co_state, func, counter, current_local,
                   executed, co_trace>>

\* `self.current = Some(coro);`
run_set_current ==
    /\ co_pc = "set_current"
    /\ current' = coro
    /\ coro' = None
    /\ co_pc' = "take"
    /\ UNCHANGED <<co_others, ready_queue, co_state, func, counter,
                   current_local, executed, co_trace>>

\* `let mut current = self.current.take();` and `if let Some(ref mut coro)`.
run_take ==
    /\ co_pc = "take"
    /\ current_local' = current
    /\ current' = None
    /\ co_pc' = IF current = None THEN "restore" ELSE "set_running"
    /\ UNCHANGED <<co_others, ready_queue, co_state, func, counter, coro,
                   executed, co_trace>>

\* context_switch: `coro.set_state(CoroutineState::Running);`
set_running ==
    /\ co_pc = "set_running"
    /\ co_state' = [co_state EXCEPT ![current_local] = "Running"]
    /\ co_trace' = [co_trace EXCEPT ![current_local] = Append(@, "Running")]
    /\ co_pc' = "take_func"
    /\ UNCHANGED <<co_others, ready_queue, current, func, counter, coro,
                   current_local, executed>>

\* context_switch: `if let Some(f) = coro.take_func()`; take_func leaves
\* None in Coroutine.func.
take_func ==
    /\ co_pc = "take_func"
    /\ func' = [func EXCEPT ![current_local] = FALSE]
    /\ co_pc' = IF func[current_local] THEN "call" ELSE "restore"
    /\ UNCHANGED <<co_others, ready_queue, current, co_state, counter, coro,
                   current_local, executed, co_trace>>

\* context_switch: `f();` the closure does counter.fetch_add(1, SeqCst).
call_func ==
    /\ co_pc = "call"
    /\ counter' = counter + 1
    /\ executed' = Append(executed, current_local)
    /\ co_pc' = "set_complete"
    /\ UNCHANGED <<co_others, ready_queue, current, co_state, func, coro,
                   current_local, co_trace>>

\* context_switch: `coro.set_state(CoroutineState::Complete);`
set_complete ==
    /\ co_pc = "set_complete"
    /\ co_state' = [co_state EXCEPT ![current_local] = "Complete"]
    /\ co_trace' = [co_trace EXCEPT ![current_local] = Append(@, "Complete")]
    /\ co_pc' = "restore"
    /\ UNCHANGED <<co_others, ready_queue, current, func, counter, coro,
                   current_local, executed>>

\* `self.current = current;`
run_restore ==
    /\ co_pc = "restore"
    /\ current' = current_local
    /\ current_local' = None
    /\ co_pc' = "after"
    /\ UNCHANGED <<co_others, ready_queue, co_state, func, counter, coro,
                   executed, co_trace>>

\* `if let Some(coro) = self.current.take() { match coro.state() { .. } }`:
\* Suspended is pushed back, Complete is dropped, any other state panics at
\* unreachable!().
run_after ==
    /\ co_pc = "after"
    /\ current' = None
    /\ IF current = None
       THEN /\ co_pc' = "pop"
            /\ ready_queue' = ready_queue
       ELSE IF co_state[current] = "Suspended"
       THEN /\ co_pc' = "pop"
            /\ ready_queue' = Append(ready_queue, current)
       ELSE IF co_state[current] = "Complete"
       THEN /\ co_pc' = "pop"
            /\ ready_queue' = ready_queue
       ELSE /\ co_pc' = "unreachable"
            /\ ready_queue' = ready_queue
    /\ UNCHANGED <<co_others, co_state, func, counter, coro, current_local,
                   executed, co_trace>>

CoroNext ==
    \/ spawn
    \/ run_call
    \/ run_pop_front
    \/ run_set_current
    \/ run_take
    \/ set_running
    \/ take_func
    \/ call_func
    \/ set_complete
    \/ run_restore
    \/ run_after

CoroInit == SchedulerNew /\ num_workers = 1 /\ OthersNew

CoroSpec == CoroInit /\ [][CoroNext]_vars

----------------------------------------------------------------------------
(***************************************************************************)
(* Generator and create_range_generator of coroutine_example.  One thread  *)
(* makes a range generator and calls next() on it again and again; every   *)
(* assignment of next() is one step.  The closure's `current` is an i32:   *)
(* `current += 1` runs only when current < end, so it cannot overflow.     *)
(***************************************************************************)
gen_others == <<schedv, lockv, corov, lightv, syncv, poolv>>

\* `create_range_generator(start, end)`: `let mut current = start;` and
\* Generator::new, which sets state Ready and func Some(closure).
create_range_generator(start, end) ==
    /\ gen_pc = "main"
    /\ gen_start' = start
    /\ gen_end' = end
    /\ gen_current' = start
    /\ gen_state' = "Ready"
    /\ gen_pc' = "idle"
    /\ UNCHANGED <<gen_others, gen_result, gen_out, gen_calls, gen_nones>>

\* Generator::next, `GeneratorState::Complete => None`.
next_complete ==
    /\ gen_pc = "idle"
    /\ gen_state = "Complete"
    /\ gen_nones < MaxNones
    /\ gen_nones' = gen_nones + 1
    /\ UNCHANGED <<gen_others, gen_pc, gen_state, gen_start, gen_end,
                   gen_current, gen_result, gen_out, gen_calls>>

\* Faulty variant: next() has no arm for Complete.
next_set_running_always ==
    /\ gen_pc = "idle"
    /\ gen_nones < MaxNones
    /\ gen_state' = "Running"
    /\ gen_pc' = "resume"
    /\ UNCHANGED <<gen_others, gen_start, gen_end, gen_current, gen_result,
                   gen_out, gen_calls, gen_nones>>

\* Generator::next, the `_` arm: `self.state = GeneratorState::Running;`.
next_set_running ==
    /\ gen_pc = "idle"
    /\ gen_state # "Complete"
    /\ gen_state' = "Running"
    /\ gen_pc' = "resume"
    /\ UNCHANGED <<gen_others, gen_start, gen_end, gen_current, gen_result,
                   gen_out, gen_calls, gen_nones>>

\* `let result = if let Some(ref mut f) = self.func { f() } ..` with the
\* closure of create_range_generator: `if current < end { let value =
\* current; current += 1; Some(value) } else { None }`.
next_call_func ==
    /\ gen_pc = "resume"
    /\ IF gen_current < gen_end
       THEN /\ gen_result' = <<gen_current>>
            /\ gen_current' = gen_current + 1
       ELSE /\ gen_result' = <<>>
            /\ gen_current' = gen_current
    /\ gen_calls' = gen_calls + 1
    /\ gen_pc' = "update"
    /\ UNCHANGED <<gen_others, gen_state, gen_start, gen_end, gen_out,
                   gen_nones>>

\* `match result`: Some(value) sets Yielded and returns Some(value); None
\* sets Complete and returns None.
next_update ==
    /\ gen_pc = "update"
    /\ IF gen_result # <<>>
       THEN /\ gen_state' = "Yielded"
            /\ gen_out' = gen_out \o gen_result
            /\ gen_nones' = gen_nones
       ELSE /\ gen_state' = "Complete"
            /\ gen_out' = gen_out
            /\ gen_nones' = gen_nones + 1
    /\ gen_result' = <<>>
    /\ gen_pc' = "idle"
    /\ UNCHANGED <<gen_others, gen_start, gen_end, gen_current, gen_calls>>

GenNext ==
    \/ \E start, end \in GenMin .. GenMax : create_range_generator(start, end)
    \/ next_complete
    \/ next_set_running
    \/ next_call_func
    \/ next_update

GenInit == SchedulerNew /\ num_workers = 1 /\ OthersNew

GenSpec == GenInit /\ [][GenNext]_vars

----------------------------------------------------------------------------
(***************************************************************************)
(* TrafficLight of cohort-3 and cohort-4 state-machine-example (the two    *)
(* transition functions have the same arms).  main makes a light in some   *)
(* state and passes it events.                                             *)
(***************************************************************************)
TrafficLightState == {"Red", "Yellow", "Green"}
TrafficLightEvent == {"SwitchToRed", "SwitchToYellow", "SwitchToGreen"}

light_others == <<schedv, lockv, corov, genv, syncv, poolv>>

\* Faulty variant: an arm (Red, SwitchToYellow) => Yellow is added.
transition_red_yellow(st, event) ==
    CASE st = "Red" /\ event = "SwitchToGreen" -> "Green"
      [] st = "Red" /\ event = "SwitchToYellow" -> "Yellow"
      [] st = "Green" /\ event = "SwitchToYellow" -> "Yellow"
      [] st = "Yellow" /\ event = "SwitchToRed" -> "Red"
      [] OTHER -> st

\* TrafficLight::transition: the match on (self.state, event); the `_` arm
\* only prints.
transition(st, event) ==
    CASE st = "Red" /\ event = "SwitchToGreen" -> "Green"
      [] st = "Green" /\ event = "SwitchToYellow" -> "Yellow"
      [] st = "Yellow" /\ event = "SwitchToRed" -> "Red"
      [] OTHER -> st

\* `TrafficLight::new(initial_state)`.
light_new(initial_state) ==
    /\ light_pc = "main"
    /\ light_state' = initial_state
    /\ light_trace' = <<initial_state>>
    /\ light_pc' = "made"
    /\ UNCHANGED <<light_others, light_events>>

\* `traffic_light.transition(event)`.
light_transition(event) ==
    /\ light_pc = "made"
    /\ Len(light_events) < MaxEvents
    /\ light_state' = transition(light_state, event)
    /\ light_events' = Append(light_events, event)
    /\ light_trace' = Append(light_trace, light_state')
    /\ UNCHANGED <<light_others, light_pc>>

LightNext ==
    \/ \E initial_state \in TrafficLightState : light_new(initial_state)
    \/ \E event \in TrafficLightEvent : light_transition(event)

LightInit == SchedulerNew /\ num_workers = 1 /\ OthersNew

LightSpec == LightInit /\ [][LightNext]_vars

----------------------------------------------------------------------------
(***************************************************************************)
(* concurrency-rust-sync-example.  main spawns num_threads threads and     *)
(* joins them.  Every lock, unlock, read or write of a mutex-protected     *)
(* integer and every condition-variable call is one step; Condvar::wait    *)
(* releases the mutex and blocks in one step, and returns only after a     *)
(* notification and after taking the mutex again (no spurious wakeup).     *)
(* The sleep before the first lock only delays the thread.                 *)
(***************************************************************************)
sync_others == <<schedv, lockv, corov, genv, lightv, poolv>>

\* main: the `for i in 0..num_threads` loop of thread::spawn.
sync_spawn ==
    /\ sync_main = "main"
    /\ sync_main' = "join"
    /\ sync_pc' = [t \in SyncThreads |-> "lock"]
    /\ UNCHANGED <<sync_others, shared_data, semaphore, data_guard, sem_guard,
                   waiters, notified>>

\* `let mut data = shared_data_clone.lock().unwrap();`
sync_lock_data(t) ==
    /\ sync_pc[t] = "lock"
    /\ data_guard = NoOne
    /\ data_guard' = t
    /\ sync_pc' = [sync_pc EXCEPT ![t] = "add"]
    /\ UNCHANGED <<sync_others, shared_data, semaphore, sem_guard, waiters,
                   sync_main, notified>>

\* `*data += 1;`
sync_add(t) ==
    /\ sync_pc[t] = "add"
    /\ shared_data' = shared_data + 1
    /\ sync_pc' = [sync_pc EXCEPT ![t] = "check"]
    /\ UNCHANGED <<sync_others, semaphore, data_guard, sem_guard, waiters,
                   sync_main, notified>>

\* `if *data == num_threads`.
sync_check(t) ==
    /\ sync_pc[t] = "check"
    /\ sync_pc' = [sync_pc EXCEPT ![t] =
            IF shared_data = num_threads THEN "notify" ELSE "wait"]
    /\ UNCHANGED <<sync_others, shared_data, semaphore, data_guard, sem_guard,
                   waiters, sync_main, notified>>

\* Faulty variant: notify_one, which wakes a single waiting thread.
sync_notify_one(t) ==
    /\ sync_pc[t] = "notify"
    /\ notified' = waiters
    /\ IF waiters = {}
       THEN /\ waiters' = waiters
            /\ sync_pc' = [sync_pc EXCEPT ![t] = "lock_sem"]
       ELSE \E u \in waiters :
            /\ waiters' = waiters \ {u}
            /\ sync_pc' = [sync_pc EXCEPT ![t] = "lock_sem", ![u] = "woken"]
    /\ UNCHANGED <<sync_others, shared_data, semaphore, data_guard, sem_guard,
                   sync_main>>

\* `condvar_clone.notify_all();`: every thread blocked in wait is woken.  The
\* guard `data` lives on to the end of the closure.
sync_notify_all(t) ==
    /\ sync_pc[t] = "notify"
    /\ notified' = waiters
    /\ waiters' = {}
    /\ sync_pc' = [u \in SyncThreads |->
            IF u = t THEN "lock_sem"
            ELSE IF u \in waiters THEN "woken" ELSE sync_pc[u]]
    /\ UNCHANGED <<sync_others, shared_data, semaphore, data_guard, sem_guard,
                   sync_main>>

\* `condvar_clone.wait(data)`: the mutex is released and the thread blocks.
sync_wait(t) ==
    /\ sync_pc[t] = "wait"
    /\ data_guard' = NoOne
    /\ waiters' = waiters \cup {t}
    /\ sync_pc' = [sync_pc EXCEPT ![t] = "waiting"]
    /\ UNCHANGED <<sync_others, shared_data, semaphore, sem_guard, sync_main,
                   notified>>

\* wait, after the notification: the mutex is taken again and wait returns
\* the guard.
sync_wait_relock(t) ==
    /\ sync_pc[t] = "woken"
    /\ data_guard = NoOne
    /\ data_guard' = t
    /\ sync_pc' = [sync_pc EXCEPT ![t] = "wait_ret"]
    /\ UNCHANGED <<sync_others, shared_data, semaphore, sem_guard, waiters,
                   sync_main, notified>>

\* `.unwrap();` the guard wait returned is a temporary and is dropped at
\* the end of the statement.
sync_wait_drop(t) ==
    /\ sync_pc[t] = "wait_ret"
    /\ data_guard' = NoOne
    /\ sync_pc' = [sync_pc EXCEPT ![t] = "lock_sem"]
    /\ UNCHANGED <<sync_others, shared_data, semaphore, sem_guard, waiters,
                   sync_main, notified>>

\* `let mut sem = semaphore_clone.lock().unwrap();`
sync_lock_sem(t) ==
    /\ sync_pc[t] = "lock_sem"
    /\ sem_guard = NoOne
    /\ sem_guard' = t
    /\ sync_pc' = [sync_pc EXCEPT ![t] = "add_sem"]
    /\ UNCHANGED <<sync_others, shared_data, semaphore, data_guard, waiters,
                   sync_main, notified>>

\* `*sem += 1;`
sync_add_sem(t) ==
    /\ sync_pc[t] = "add_sem"
    /\ semaphore' = semaphore + 1
    /\ sync_pc' = [sync_pc EXCEPT ![t] = "end"]
    /\ UNCHANGED <<sync_others, shared_data, data_guard, sem_guard, waiters,
                   sync_main, notified>>

\* End of the closure: `sem` is dropped, then `data` if this thread still
\* has it (the thread that called notify_all).
sync_end(t) ==
    /\ sync_pc[t] = "end"
    /\ sem_guard' = NoOne
    /\ data_guard' = IF data_guard = t THEN NoOne ELSE data_guard
    /\ sync_pc' = [sync_pc EXCEPT ![t] = "done"]
    /\ UNCHANGED <<sync_others, shared_data, semaphore, waiters, sync_main,
                   notified>>

\* main: `handle.join().unwrap()` for every handle.
sync_join ==
    /\ sync_main = "join"
    /\ \A t \in SyncThreads : sync_pc[t] = "done"
    /\ sync_main' = "end"
    /\ UNCHANGED <<sync_others, shared_data, semaphore, data_guard, sem_guard,
                   waiters, sync_pc, notified>>

sync_thread(t) ==
    \/ sync_lock_data(t)
    \/ sync_add(t)
    \/ sync_check(t)
    \/ sync_notify_all(t)
    \/ sync_wait(t)
    \/ sync_wait_relock(t)
    \/ sync_wait_drop(t)
    \/ sync_lock_sem(t)
    \/ sync_add_sem(t)
    \/ sync_end(t)

SyncNext ==
    \/ sync_spawn
    \/ sync_join
    \/ \E t \in SyncThreads : sync_thread(t)

SyncInit == SchedulerNew /\ num_workers = 1 /\ OthersNew

SyncSpec == SyncInit /\ [][SyncNext]_vars

\* Every spawned thread is scheduled fairly and join returns once all have
\* finished.
SyncFairSpec ==
    /\ SyncSpec
    /\ \A t \in SyncThreads : WF_vars(sync_thread(t))
    /\ WF_vars(sync_join)

----------------------------------------------------------------------------
(***************************************************************************)
(* work-stealing-example: Deque, Worker and ThreadPool::new / spawn.  One  *)
(* thread makes a pool, spawns jobs into it and calls pop and steal on its *)
(* workers.  A Deque is its Vec `items`, index 0 first; worker i of the    *)
(* pool is workers[i + 1].  A panic (division by zero, index out of        *)
(* bounds) ends the program.                                               *)
(***************************************************************************)
pool_others == <<schedv, lockv, corov, genv, lightv, syncv>>

\* Deque::push_back: `self.items.push(item)`.
deque_push_back(items, item) == Append(items, item)

\* Deque::pop_front: `self.items.pop()`, which takes the last element.
deque_pop_front(items) ==
    IF items = <<>> THEN [item |-> None, items |-> items]
    ELSE [item |-> items[Len(items)],
          items |-> SubSeq(items, 1, Len(items) - 1)]

\* Deque::pop_back: `self.items.pop()`.
deque_pop_back(items) ==
    IF items = <<>> THEN [item |-> None, items |-> items]
    ELSE [item |-> items[Len(items)],
          items |-> SubSeq(items, 1, Len(items) - 1)]

\* `ThreadPool::new(num_threads)`: num_threads workers with empty deques.
pool_new(n) ==
    /\ pool_pc = "main"
    /\ workers' = [i \in 1 .. n |-> <<>>]
    /\ pool_pc' = "pool"
    /\ UNCHANGED <<pool_others, next_job, thread_index, removed>>

\* ThreadPool::spawn: `let thread_index = 1 / self.workers.len();
\* self.workers[thread_index].push(job);` with Worker::push = push_back.
\* The division panics on an empty pool, the indexing on an index that is
\* not below the length.
pool_spawn ==
    /\ pool_pc = "pool"
    /\ next_job < MaxJobs
    /\ IF Len(workers) = 0
       THEN /\ pool_pc' = "panicked"
            /\ UNCHANGED <<workers, thread_index>>
       ELSE /\ thread_index' = 1 \div Len(workers)
            /\ IF thread_index' < Len(workers)
               THEN /\ workers' = [workers EXCEPT ![thread_index' + 1] =
                                      deque_push_back(@, next_job)]
                    /\ pool_pc' = pool_pc
               ELSE /\ workers' = workers
                    /\ pool_pc' = "panicked"
    /\ next_job' = next_job + 1
    /\ UNCHANGED <<pool_others, removed>>

\* Worker::pop on worker i: `self.deque.pop_front()`.
pool_pop(i) ==
    /\ pool_pc = "pool"
    /\ i \in 1 .. Len(workers)
    /\ Len(removed) < MaxRemovals
    /\ LET r == deque_pop_front(workers[i]) IN
        /\ workers' = [workers EXCEPT ![i] = r.items]
        /\ removed' = Append(removed,
                [how |-> "pop", worker |-> i - 1, before |-> workers[i],
                 item |-> r.item])
    /\ UNCHANGED <<pool_others, pool_pc, next_job, thread_index>>

\* Worker::steal with `other` = worker i: `other.deque.pop_back()`.
pool_steal(i) ==
    /\ pool_pc = "pool"
    /\ i \in 1 .. Len(workers)
    /\ Len(removed) < MaxRemovals
    /\ LET r == deque_pop_back(workers[i]) IN
        /\ workers' = [workers EXCEPT ![i] = r.items]
        /\ removed' = Append(removed,
                [how |-> "steal", worker |-> i - 1, before |-> workers[i],
                 item |-> r.item])
    /\ UNCHANGED <<pool_others, pool_pc, next_job, thread_index>>

PoolNext ==
    \/ \E n \in 0 .. MaxPoolThreads : pool_new(n)
    \/ pool_spawn
    \/ \E i \in 1 .. MaxPoolThreads : pool_pop(i)
    \/ \E i \in 1 .. MaxPoolThreads : pool_steal(i)

PoolInit == SchedulerNew /\ num_workers = 1 /\ OthersNew

PoolSpec == PoolInit /\ [][PoolNext]_vars

----------------------------------------------------------------------------
\* Properties.

\* The places a task id is in: positions of queues, worker threads that own
\* it, and the main thread while it hands the task to add_task.
QueueSlots == UNION {{<<q, i>> : i \in 1 .. Len(tasks[q])} : q \in Workers}

Places(id) ==
    LET slots == {<<"queue", s[1], s[2]>> :
                    s \in {t \in QueueSlots : tasks[t[1]][t[2]] = id}}
        owners == {<<"worker", w, 0>> : w \in {v \in Workers : task[v] = id}}
        hand == IF main_task = id THEN {<<"main", 0, 0>>} ELSE {}
    IN  slots \cup owners \cup hand

Submitted(q) == {id \in TaskIds : home[id] = q /\ main_task # id}

\* C1: when run() has returned, tasks_completed equals total_tasks and every
\* submitted task id has been executed exactly once; no task is ever executed
\* twice.
Conservation ==
    /\ \A id \in TaskIds : exec_count[id] <= 1
    /\ main_pc = "returned" =>
        /\ tasks_completed = total_tasks
        /\ TaskIds = 0 .. (total_tasks - 1)
        /\ \A id \in TaskIds : exec_count[id] = 1

ConservationWitness ==
    /\ main_pc = "returned"
    /\ num_workers >= 2
    /\ \E id \in TaskIds : taken_how[id] = "steal"
    /\ \E id \in TaskIds : taken_how[id] = "pop"

\* C2: under fair scheduling, once run() has spawned the worker threads it
\* eventually returns, whatever the number of workers and the distribution
\* of the tasks.
Termination == (main_pc = "join") ~> (main_pc = "returned")

TerminationWitness ==
    /\ main_pc = "returned"
    /\ num_workers >= 2
    /\ total_tasks >= 2
    /\ \A id \in TaskIds : home[id] = 1

\* C3: when run() has returned every queue is empty, with size() 0, and no
\* task is left in state Ready.
RunDrained ==
    main_pc = "returned" =>
        /\ \A q \in Workers : tasks[q] = <<>> /\ size[q] = 0
        /\ \A id \in TaskIds : state[id] # "Ready"

RunDrainedWitness ==
    /\ main_pc = "returned"
    /\ total_tasks >= 2
    /\ \E id \in TaskIds : home[id] # DesignatedWorker /\ taken_how[id] = "steal"

\* C4: a task id is never in two places (two queue slots, two workers, or a
\* queue and a worker), and a task that is not yet completed is in exactly one.
MutualExclusion ==
    \A id \in TaskIds :
        /\ Cardinality(Places(id)) <= 1
        /\ state[id] # "Completed" => Cardinality(Places(id)) = 1

MutualExclusionWitness ==
    \E v, w \in Workers :
        /\ v # w
        /\ pc[v] = "exec"
        /\ pc[w] = "exec"
        /\ taken_how[task[w]] = "steal"
        /\ \E q \in Workers : tasks[q] # <<>>

\* C5: a worker has never left its loop while another worker owns a task that
\* it has removed from a queue and not finished executing.
NoPrematureExit ==
    \A w \in Workers :
        pc[w] = "done" => \A v \in Workers \ {w} : task[v] = None

\* C6: when a worker has left its loop no task is in any queue, the worker's
\* own queue included.
ExitMeansNoQueuedWork ==
    \A w \in Workers :
        pc[w] = "done" => \A q \in Workers : tasks[q] = <<>>

\* C7: every steal is made by a worker other than worker 0, and worker 0
\* executes only tasks it popped from its own queue.
Worker0NeverSteals ==
    \A id \in TaskIds :
        /\ taken_how[id] = "steal" => taken_by[id] # 0
        /\ stolen_incs[id] > 0 => taken_by[id] # 0
        /\ (task[0] = id \/ exec_by[id] = 0) =>
            /\ home[id] = 0
            /\ taken_how[id] = "pop"
            /\ taken_by[id] = 0

Worker0NeverStealsWitness ==
    /\ num_workers >= 2
    /\ \E id \in TaskIds : taken_how[id] = "steal" /\ exec_count[id] = 1
    /\ \E id \in TaskIds : exec_by[id] = 0
    /\ pc[0] = "sleep"

\* C8 as stated: for every finished task tasks_completed and tasks_stolen
\* have each been incremented exactly once.
CountersOncePerTask ==
    \A id \in TaskIds :
        exec_count[id] = 1 => stolen_incs[id] = 1

\* C8 as amended: tasks_completed is incremented exactly once per task, by
\* the worker that took the task and finished executing it; tasks_stolen is
\* incremented exactly once per stolen task, before its execution finishes,
\* and never for a task popped by its owner.
CountersPerTask ==
    /\ \A id \in TaskIds :
        /\ exec_count[id] <= 1
        /\ stolen_incs[id] <= 1
        /\ exec_count[id] = 1 =>
            /\ exec_by[id] = taken_by[id]
            /\ stolen_incs[id] = (IF taken_how[id] = "steal" THEN 1 ELSE 0)
        /\ taken_how[id] # "steal" => stolen_incs[id] = 0
    /\ tasks_completed = Cardinality({id \in TaskIds : exec_count[id] = 1})
    /\ tasks_stolen = Cardinality({id \in TaskIds : stolen_incs[id] = 1})

CountersPerTaskWitness ==
    /\ \E id \in TaskIds :
        exec_count[id] = 1 /\ taken_how[id] = "steal" /\ exec_by[id] # home[id]
    /\ \E id \in TaskIds :
        exec_count[id] = 1 /\ taken_how[id] = "pop" /\ exec_by[id] = home[id]

\* C9: in every state the size counter of every queue equals the number of
\* tasks in its deque.
SizeConsistency ==
    \A q \in Workers : size[q] = Len(tasks[q])

\* C10: every task is returned by at most one pop() or steal(), by exactly
\* one once it has left its queue, and the number of calls on a queue that
\* returned Some is the number of tasks that left it; a remover that finds
\* the queue empty gets None.
OneRemoverPerTask ==
    /\ \A id \in TaskIds :
        /\ pop_count[id] <= 1
        /\ main_task # id =>
            pop_count[id] + Cardinality({i \in 1 .. Len(tasks[home[id]]) :
                                            tasks[home[id]][i] = id}) = 1
    /\ \A q \in Workers :
        Cardinality({id \in Submitted(q) : pop_count[id] = 1})
            = Cardinality(Submitted(q)) - Len(tasks[q])
    /\ \A w \in Workers : pc[w] \in {"steal_none", "sleep"} => task[w] = None

OneRemoverPerTaskWitness ==
    \E w \in Workers :
        /\ pc[w] = "steal_none"
        /\ source_size[w] = 1
        /\ LET q == OtherQueues(w)[idx[w]] IN
            /\ Cardinality(Submitted(q)) = 1
            /\ \A id \in Submitted(q) :
                pop_count[id] = 1 /\ taken_by[id] \in Workers \ {w}

\* C11: tasks are pushed in the order of their ids, so the front of a queue
\* is its oldest task.  Every queue keeps its tasks in push order; a pop()
\* that returned a task returned the most recently pushed task of those then
\* in the queue, and a steal() that returned a task returned the oldest one,
\* whatever pops and steals came before.
LifoFifo ==
    /\ \A q \in Workers : \A i, j \in 1 .. Len(tasks[q]) :
            i < j => tasks[q][i] < tasks[q][j]
    /\ \A w \in Workers : pc[w] = "pop_size" =>
            \A i \in 1 .. Len(tasks[w]) : tasks[w][i] < task[w]
    /\ \A w \in Workers : pc[w] = "steal_size" =>
            LET q == OtherQueues(w)[idx[w]] IN
            \A i \in 1 .. Len(tasks[q]) : task[w] < tasks[q][i]

\* Tasks 0, 1, 2 were pushed to one queue; pop() returned 2 and steal() has
\* just returned 0, leaving 1.
LifoFifoWitness ==
    \E w \in Workers :
        /\ pc[w] = "steal_size"
        /\ task[w] = 0
        /\ Cardinality(TaskIds) = 3
        /\ \A id \in TaskIds : home[id] = OtherQueues(w)[idx[w]]
        /\ tasks[OtherQueues(w)[idx[w]]] = <<1>>
        /\ taken_how[2] = "pop"

\* C12: when run() is called with no task submitted, every worker stays in
\* its first evaluation of all_work_complete or has exited (it never reaches
\* the steal branch, pop, execute_task or sleep), the counters stay 0, and
\* run() returns.
IdleRun == main_pc \in {"join", "returned"} /\ total_tasks = 0

IdleTermination ==
    /\ [](IdleRun =>
            /\ \A w \in Workers :
                    /\ pc[w] \in {"loop", "awc_stolen", "wes", "done"}
                    /\ task[w] = None
            /\ tasks_completed = 0
            /\ tasks_stolen = 0)
    /\ ((main_pc = "join" /\ total_tasks = 0) ~> (main_pc = "returned"))

\* run() has returned from a scheduler of three workers with no task.
IdleTerminationWitness ==
    /\ num_workers = 3
    /\ total_tasks = 0
    /\ main_pc = "returned"
    /\ runs = 1
    /\ \A w \in Workers : pc[w] = "done" /\ obs_empty[w] = Workers \ {w}

\* C13: a second run() on a scheduler whose first run() has returned: every
\* worker stays in its first evaluation of all_work_complete or has exited,
\* and no step of the second run changes a counter, a queue, or the record
\* of executed tasks; the second run() returns in such a state.
SecondRunFrame ==
    /\ tasks_completed' = tasks_completed
    /\ tasks_stolen' = tasks_stolen
    /\ total_tasks' = total_tasks
    /\ tasks' = tasks
    /\ size' = size
    /\ state' = state
    /\ exec_count' = exec_count

IdempotentShutdown ==
    /\ [](runs = 2 =>
            /\ \A w \in Workers :
                    /\ pc[w] \in {"loop", "awc_stolen", "wes", "done"}
                    /\ task[w] = None
            /\ \A q \in Workers : tasks[q] = <<>> /\ size[q] = 0
            /\ tasks_completed + tasks_stolen >= total_tasks)
    /\ [][runs' = 2 => SecondRunFrame]_vars

\* The second run() has returned after a first run that executed three
\* tasks, one of them stolen.
IdempotentShutdownWitness ==
    /\ runs = 2
    /\ main_pc = "returned"
    /\ num_workers = 3
    /\ tasks_completed = 3
    /\ tasks_stolen >= 1

\* C14: a worker that has left its loop read completed + stolen >= total and
\* then read size() = 0 on every peer queue, all in the evaluation of
\* all_work_complete that made it leave; it leaves from that evaluation only,
\* and an evaluation that read completed + stolen < total or a peer size > 0
\* continues the loop at the steal branch.
ExitStep(w) == pc[w] # "done" /\ pc'[w] = "done"

ExitGuard ==
    /\ [](\A w \in Workers :
            /\ pc[w] \in {"wes", "done"} => obs_ok[w]
            /\ pc[w] = "done" => obs_empty[w] = Workers \ {w})
    /\ [][\A w \in Workers :
            /\ ExitStep(w) =>
                    /\ pc[w] \in {"awc_stolen", "wes"}
                    /\ obs_ok'[w]
                    /\ obs_empty'[w] = Workers \ {w}
            /\ (pc[w] \in {"awc_stolen", "wes"} /\ pc'[w] # pc[w] /\ ~obs_ok'[w]) =>
                    pc'[w] = "steal_check"]_vars

\* A worker of three has exited after three tasks were executed.
ExitGuardWitness ==
    \E w \in Workers :
        /\ pc[w] = "done"
        /\ num_workers = 3
        /\ tasks_completed = 3
        /\ runs = 1
        /\ obs_empty[w] = Workers \ {w}

\* C15: new(n) makes n queues and n workers with ids 0 .. n-1, queue and
\* worker i under the same index; other_queues of worker i lists every queue
\* j # i exactly once in increasing j (queue 0 first when i # 0) and never
\* queue i; the three counters, which all workers share, and all queues
\* start at 0 and empty.
Constructed == main_pc = "setup" /\ TaskIds = {}

Wiring ==
    /\ DOMAIN tasks = 0 .. (num_workers - 1)
    /\ DOMAIN size = DOMAIN tasks
    /\ DOMAIN lock = DOMAIN tasks
    /\ DOMAIN pc = DOMAIN tasks
    /\ \A w \in Workers :
        LET o == OtherQueues(w) IN
            /\ Len(o) = num_workers - 1
            /\ {o[i] : i \in 1 .. Len(o)} = Workers \ {w}
            /\ \A i, j \in 1 .. Len(o) : i < j => o[i] < o[j]
            /\ w # 0 => o[1] = 0
    /\ Constructed =>
            /\ tasks_completed = 0 /\ tasks_stolen = 0 /\ total_tasks = 0
            /\ \A q \in Workers : tasks[q] = <<>> /\ size[q] = 0

\* new(3) has returned.
WiringWitness ==
    /\ Constructed
    /\ num_workers = 3
    /\ OtherQueues(0) = <<1, 2>>
    /\ OtherQueues(1) = <<0, 2>>
    /\ OtherQueues(2) = <<0, 1>>

\* C16: between add_task calls and before run(), every queue holds exactly
\* the tasks submitted to it, in the order of the calls (each call appended
\* at the back of the named queue and touched no other queue), its size is
\* the number of those tasks, total_tasks is the number of calls and the sum
\* of all sizes, and tasks_completed and tasks_stolen are still 0.
RECURSIVE SumSizes(_)
SumSizes(n) == IF n = 0 THEN 0 ELSE size[n - 1] + SumSizes(n - 1)

SubmittedInOrder(q) ==
    SelectSeq([i \in 1 .. Cardinality(TaskIds) |-> i - 1],
              LAMBDA id : home[id] = q)

AddTaskFrame ==
    (main_pc = "setup" /\ runs = 0) =>
        /\ \A q \in Workers :
                /\ tasks[q] = SubmittedInOrder(q)
                /\ size[q] = Len(tasks[q])
        /\ total_tasks = Cardinality(TaskIds)
        /\ total_tasks = SumSizes(num_workers)
        /\ tasks_completed = 0
        /\ tasks_stolen = 0

\* add_task(0, 0), add_task(1, 1), add_task(0, 2) have returned.
AddTaskFrameWitness ==
    /\ main_pc = "setup"
    /\ runs = 0
    /\ num_workers = 3
    /\ tasks = (0 :> <<0, 2>> @@ 1 :> <<1>> @@ 2 :> <<>>)
    /\ total_tasks = 3

\* C18: in the compare_exchange spin lock at most one thread is inside the
\* closure passed to tec_lock, and once every thread has done its LockIters
\* locked increments the value main reads through tec_lock, which main
\* asserts, is LockThreads * LockIters.
InClosure(t) == thread_pc[t] \in {"read", "write", "get", "unlock"}

CasMutualExclusion ==
    \A t, u \in 0 .. LockThreads : (InClosure(t) /\ InClosure(u)) => t = u

CasLockContract ==
    /\ CasMutualExclusion
    /\ thread_pc[0] = "assert" => final = LockThreads * LockIters

\* C19: in the load-then-store spin lock no two threads are inside the
\* closure passed to tec_lock at the same time, and once every thread has
\* done its LockIters increments the value main reads through tec_lock,
\* which main asserts, is LockThreads * LockIters.
LoadStoreContract ==
    /\ \A t, u \in 0 .. LockThreads : (InClosure(t) /\ InClosure(u)) => t = u
    /\ thread_pc[0] = "assert" => final = LockThreads * LockIters

\* C20: whatever spawn and run calls are made, the functions of the spawned
\* coroutines run in spawn order, each at most once, and the shared counter
\* counts them; a coroutine is Ready, then Running, then Complete; the
\* unreachable!() of run is never reached; and when run() has returned
\* ready_queue is empty, current is None, and every spawned coroutine is
\* Complete with its function run exactly once, so that the counter equals
\* the number of spawned coroutines.
Lifecycle == <<"Ready", "Running", "Complete">>

RunContract ==
    /\ \A i \in 1 .. Len(executed) : executed[i] = i - 1
    /\ counter = Len(executed)
    /\ co_pc # "unreachable"
    /\ \A id \in CoroutineIds :
            /\ co_trace[id] = SubSeq(Lifecycle, 1, Len(co_trace[id]))
            /\ co_state[id] = co_trace[id][Len(co_trace[id])]
    /\ co_pc = "returned" =>
            /\ ready_queue = <<>>
            /\ current = None
            /\ Len(executed) = Cardinality(CoroutineIds)
            /\ counter = Cardinality(CoroutineIds)
            /\ \A id \in CoroutineIds : co_trace[id] = Lifecycle

\* Three spawn calls, then run() has returned (demo_multiple_coroutines).
RunContractWitness ==
    /\ co_pc = "returned"
    /\ executed = <<0, 1, 2>>
    /\ counter = 3

InStealTask(w) ==
    pc[w] \in {"st_src", "st_our", "steal", "steal_size", "steal_none"}

StealOrder ==
    /\ [](\A w \in Workers : InStealTask(w) =>
            /\ w # 0
            /\ idx[w] \in 1 .. Len(OtherQueues(w))
            /\ Candidate(w) # w
            /\ passed[w] = {q \in Workers \ {w} : q < Candidate(w)})
    /\ [][\A w \in Workers :
            /\ (pc[w] = "steal_check" /\ pc'[w] = "st_src") =>
                    OtherQueues(w)[idx'[w]] = 0
            /\ (pc[w] = "steal_size" /\ pc'[w] # "steal_size") =>
                    pc'[w] = "stolen" /\ task'[w] = task[w]]_vars

\* Worker 2 took a task from queue 1 after leaving queue 0 without one.
StealOrderWitness ==
    /\ num_workers = 3
    /\ pc[2] = "steal_size"
    /\ Candidate(2) = 1
    /\ passed[2] = {0}

\* C23: the order of the steps of one iteration of Worker::run.  After the
\* termination check a worker enters steal_task only if it is not worker 0
\* and read its own size() as 0; steal_task ends with a task or at the local
\* pop.  A stolen task is tagged Stolen and tasks_stolen is incremented by 1
\* in the step before execute_task, and a worker executing a task it stole
\* has done both.  execute_task is followed by the top of the loop; pop()
\* with a task is followed by execute_task; sleep follows only a pop() that
\* returned None.
LoopOrder ==
    {<<"idle", "loop">>, <<"done", "loop">>,
     <<"loop", "awc_stolen">>,
     <<"awc_stolen", "wes">>, <<"awc_stolen", "done">>,
     <<"awc_stolen", "steal_check">>,
     <<"wes", "done">>, <<"wes", "steal_check">>,
     <<"steal_check", "st_src">>, <<"steal_check", "pop">>,
     <<"st_src", "st_our">>,
     <<"st_our", "steal">>, <<"st_our", "st_src">>, <<"st_our", "pop">>,
     <<"steal", "steal_size">>, <<"steal", "steal_none">>,
     <<"steal_none", "st_src">>, <<"steal_none", "pop">>,
     <<"steal_size", "stolen">>,
     <<"stolen", "exec">>,
     <<"pop", "pop_size">>, <<"pop", "sleep">>,
     <<"pop_size", "exec">>,
     <<"exec", "loop">>,
     <<"sleep", "loop">>}

LoopStepOrder ==
    /\ [](\A w \in Workers :
            (pc[w] = "exec" /\ taken_how[task[w]] = "steal") =>
                /\ state[task[w]] = "Stolen"
                /\ stolen_incs[task[w]] = 1
                /\ exec_count[task[w]] = 0)
    /\ [][\A w \in Workers :
            /\ pc'[w] # pc[w] => <<pc[w], pc'[w]>> \in LoopOrder
            /\ (pc[w] = "steal_check" /\ pc'[w] = "st_src") =>
                    w # 0 /\ size[w] = 0
            /\ (pc[w] = "stolen" /\ pc'[w] = "exec") =>
                    /\ state'[task[w]] = "Stolen"
                    /\ tasks_stolen' = tasks_stolen + 1
                    /\ exec_count'[task[w]] = 0
            /\ (pc[w] = "pop" /\ pc'[w] = "sleep") => task'[w] = None
            /\ (pc[w] = "pop" /\ pc'[w] = "pop_size") => task'[w] # None]_vars

\* A worker is back at the top of its loop after executing a task it stole,
\* and another task was popped and executed by its owner.
LoopStepOrderWitness ==
    \E w \in Workers : \E id, other \in TaskIds :
        /\ pc[w] = "loop"
        /\ exec_by[id] = w
        /\ taken_how[id] = "steal"
        /\ taken_how[other] = "pop"
        /\ exec_count[other] = 1

\* C24: a steal() that returns None gives the thief no task and changes no
\* queue, size or counter; the thief then goes to the next candidate if
\* there is one and otherwise to its local pop, again without changing a
\* counter; a thief whose steal_task found nothing has an empty local queue,
\* so its pop returns None and it sleeps.
FailedSteal ==
    /\ [](\A w \in Workers :
            (pc[w] = "pop" /\ w # 0 /\ size[w] = 0) => tasks[w] = <<>>)
    /\ [][\A w \in Workers :
            /\ (pc[w] = "steal" /\ pc'[w] = "steal_none") =>
                    /\ task'[w] = None
                    /\ UNCHANGED <<tasks, size, sched, state>>
            /\ (pc[w] = "steal_none" /\ pc'[w] # "steal_none") =>
                    /\ UNCHANGED <<tasks, size, sched, state, task>>
                    /\ IF idx[w] < Len(OtherQueues(w))
                       THEN pc'[w] = "st_src" /\ idx'[w] = idx[w] + 1
                       ELSE pc'[w] = "pop" /\ size[w] = 0
            /\ (pc[w] = "pop" /\ w # 0 /\ size[w] = 0 /\ pc'[w] # "pop") =>
                    pc'[w] = "sleep"]_vars

\* steal() has returned None to a thief that had read the queue's size as 1:
\* another remover took the task in between.
FailedStealWitness ==
    \E w \in Workers :
        /\ pc[w] = "steal_none"
        /\ source_size[w] = 1
        /\ tasks[Candidate(w)] = <<>>
        /\ idx[w] < Len(OtherQueues(w))

\* C25: pop() and steal() on an empty queue return None and change neither
\* the deque nor the size; on a non-empty queue pop() removes exactly the
\* back task, steal() exactly the front task, and each then decrements the
\* size by exactly 1 before it returns.  A size is never negative: it is the
\* length of the deque, plus 1 while a remover has yet to decrement it,
\* minus 1 while push has yet to increment it.
PendingSize(q) ==
    IF lock[q] \in Workers THEN 1 ELSE IF lock[q] = MainThread THEN -1 ELSE 0

EmptyQueueRemoval ==
    /\ [](\A q \in Workers :
            /\ size[q] >= 0
            /\ size[q] = Len(tasks[q]) + PendingSize(q))
    /\ [][\A w \in Workers :
            /\ (pc[w] = "pop" /\ pc'[w] # "pop") =>
                    IF tasks[w] = <<>>
                    THEN task'[w] = None /\ UNCHANGED <<tasks, size>>
                    ELSE /\ task'[w] = tasks[w][Len(tasks[w])]
                         /\ tasks' = [tasks EXCEPT ![w] =
                                SubSeq(@, 1, Len(@) - 1)]
                         /\ pc'[w] = "pop_size"
            /\ (pc[w] = "pop_size" /\ pc'[w] # "pop_size") =>
                    /\ size' = [size EXCEPT ![w] = @ - 1]
                    /\ tasks' = tasks
            /\ (pc[w] = "steal" /\ pc'[w] # "steal") =>
                    IF tasks[Candidate(w)] = <<>>
                    THEN task'[w] = None /\ UNCHANGED <<tasks, size>>
                    ELSE /\ task'[w] = tasks[Candidate(w)][1]
                         /\ tasks' = [tasks EXCEPT ![Candidate(w)] = Tail(@)]
                         /\ pc'[w] = "steal_size"
            /\ (pc[w] = "steal_size" /\ pc'[w] # "steal_size") =>
                    /\ size' = [size EXCEPT ![Candidate(w)] = @ - 1]
                    /\ tasks' = tasks]_vars

\* pop() on an empty queue has returned None to one worker and steal() on an
\* empty queue has returned None to another.
EmptyQueueRemovalWitness ==
    \E w, v \in Workers :
        /\ pc[w] = "sleep"
        /\ tasks[w] = <<>>
        /\ size[w] = 0
        /\ pc[v] = "steal_none"
        /\ tasks[Candidate(v)] = <<>>
        /\ size[Candidate(v)] = 0

\* C26: under fair scheduling of the worker threads, whenever during run() a
\* queue is non-empty and some worker other than worker 0 and other than
\* the queue's owner has not exited and has an empty local queue, that queue
\* eventually loses a task (its owner pops one or a thief steals one): no
\* queued task waits forever while such an idle worker exists.  During run()
\* no queue ever grows, and from every such state every queue is eventually
\* empty, so each non-empty queue has lost all of its tasks by then; and a
\* worker exits only when every queue other than its own is empty, so the
\* idle worker is still there for as long as the task waits.
IdleThief(q) ==
    \E w \in Workers \ {DesignatedWorker, q} :
        /\ pc[w] # "done"
        /\ tasks[w] = <<>>

StealableWork ==
    /\ main_pc = "join"
    /\ \E q \in Workers : tasks[q] # <<>> /\ IdleThief(q)

StealableWorkNoticed ==
    /\ [][main_pc = "join" =>
            \A q \in Workers :
                \/ tasks'[q] = tasks[q]
                \/ /\ tasks[q] # <<>>
                   /\ tasks'[q] \in {Tail(tasks[q]),
                                     SubSeq(tasks[q], 1, Len(tasks[q]) - 1)}]_vars
    /\ [][\A w \in Workers :
            (pc[w] # "done" /\ pc'[w] = "done") =>
                \A q \in Workers \ {w} : tasks[q] = <<>>]_vars
    /\ StealableWork ~> (\A q \in Workers : tasks[q] = <<>>)

\* A thief with an empty local queue has just stolen a task from the queue of
\* a worker that had already exited with that task still queued.
StealableWorkNoticedWitness ==
    \E q \in Workers : \E w \in Workers \ {DesignatedWorker, q} :
        /\ main_pc = "join"
        /\ pc[q] = "done"
        /\ pc[w] = "steal_size"
        /\ Candidate(w) = q
        /\ taken_by[task[w]] = w
        /\ home[task[w]] = q
        /\ tasks[w] = <<>>

\* C27: no thread holds two queue locks at once.  A worker holds a lock only
\* inside one pop (its own queue) or one steal (its current candidate), the
\* main thread only inside one push, and each lock is released before the
\* operation returns.  size() takes no lock, so a worker reading a size can
\* always step; a worker can be blocked only at the start of pop or steal,
\* where it holds no lock, and the holder of the lock it waits for can always
\* step: there is no cycle of workers waiting for each other.
Held(t) == {q \in Workers : lock[q] = t}

WaitsFor(w) ==
    IF pc[w] = "pop" THEN w
    ELSE IF pc[w] = "steal" THEN Candidate(w)
    ELSE None

OneLockAtATime ==
    /\ Cardinality(Held(MainThread)) <= 1
    /\ Held(MainThread) # {} => main_pc = "push_size" /\ Held(MainThread) = {main_worker}
    /\ \A w \in Workers :
        /\ Cardinality(Held(w)) <= 1
        /\ Held(w) # {} =>
              \/ pc[w] = "pop_size" /\ Held(w) = {w}
              \/ pc[w] = "steal_size" /\ Held(w) = {Candidate(w)}
        /\ pc[w] \in {"wes", "steal_check", "st_src", "st_our", "pop_size", "steal_size"} =>
              ENABLED WorkerStep(w)
        /\ (pc[w] \notin {"idle", "done"} /\ ~ ENABLED WorkerStep(w)) =>
              /\ WaitsFor(w) \in Workers
              /\ Held(w) = {}
              /\ lock[WaitsFor(w)] \in Workers \ {w}
              /\ ENABLED WorkerStep(lock[WaitsFor(w)])

\* Two workers each hold one lock (the owner of queue 1 inside pop, a thief
\* inside steal on queue 0) while worker 0 waits at pop for its own queue's
\* lock and holds none.
OneLockAtATimeWitness ==
    /\ num_workers = 3
    /\ pc[1] = "pop_size"
    /\ lock[1] = 1
    /\ pc[2] = "steal_size"
    /\ lock[0] = 2
    /\ pc[0] = "pop"
    /\ ~ ENABLED WorkerStep(0)

\* C28: no step of a worker thread (termination check, size read, steal,
\* pop, tagging, execute, sleep, exit) writes total_tasks, and nothing writes
\* it while run() is in progress; from the start of run() until after it has
\* returned total_tasks is the number of add_task calls made before run().
TotalFixedDuringRun ==
    /\ [](main_pc \in {"join", "returned"} =>
            total_tasks = Cardinality(TaskIds))
    /\ [][(\/ main_pc = "join"
            \/ \E w \in Workers : pc'[w] # pc[w] \/ task'[w] # task[w])
           => total_tasks' = total_tasks]_vars

\* run() has returned after three add_task calls, with a task stolen, a task
\* popped by its owner and every task executed.
TotalFixedDuringRunWitness ==
    /\ main_pc = "returned"
    /\ total_tasks = MaxTasks
    /\ tasks_completed = MaxTasks
    /\ \E id \in TaskIds : taken_how[id] = "steal"
    /\ \E id \in TaskIds : taken_how[id] = "pop"

\* C29: every task waiting in a queue is Ready, a task is Running for the
\* whole time a worker is inside execute_task with it, and a task whose
\* execution has finished is Completed: no task is executed in a state other
\* than Running.
TaskLifecycle ==
    /\ \A q \in Workers : \A i \in 1 .. Len(tasks[q]) :
            state[tasks[q][i]] = "Ready"
    /\ \A w \in Workers :
            pc[w] = "exec" => state[task[w]] = "Running"
    /\ \A id \in TaskIds :
            exec_count[id] > 0 => state[id] = "Completed"

\* C30: Stolen is a transient tag.  A task is Stolen only while the thief
\* that removed it from another worker's queue with steal() is executing it;
\* the tag is put on by that thief after the steal and the only state that
\* follows it is Completed, set by the same thief.  A task popped by its
\* owner is never Stolen, a Completed task stays Completed, and once run()
\* has returned every submitted task is Completed.
StolenIsTransient ==
    /\ [](\A id \in TaskIds :
            /\ state[id] = "Stolen" =>
                  /\ taken_how[id] = "steal"
                  /\ taken_by[id] \in Workers \ {home[id]}
                  /\ task[taken_by[id]] = id
                  /\ pc[taken_by[id]] = "exec"
            /\ taken_how[id] = "pop" => state[id] # "Stolen"
            /\ main_pc = "returned" => state[id] = "Completed")
    /\ [][\A id \in TaskIds :
            /\ state[id] = "Completed" => state'[id] = "Completed"
            /\ (state[id] # "Stolen" /\ state'[id] = "Stolen") =>
                  /\ state[id] = "Ready"
                  /\ taken_how[id] = "steal"
                  /\ task[taken_by[id]] = id
                  /\ pc[taken_by[id]] = "stolen"
            /\ (state[id] = "Stolen" /\ state'[id] # "Stolen") =>
                  /\ state'[id] = "Completed"
                  /\ exec_by'[id] = taken_by[id]]_vars

\* A thief is executing a task tagged Stolen while an owner is executing a
\* task it popped, which is not tagged, and an earlier stolen task is
\* already Completed.
StolenIsTransientWitness ==
    \E a, b, c \in TaskIds :
        /\ state[a] = "Stolen"
        /\ exec_count[a] = 0
        /\ taken_how[b] = "pop"
        /\ state[b] = "Ready"
        /\ \E w \in Workers : pc[w] = "exec" /\ task[w] = b
        /\ taken_how[c] = "steal"
        /\ state[c] = "Completed"

\* C31: a task left in the queue of a worker that has exited its loop is not
\* lost.  While such a task is queued a thief other than its owner is still
\* running and the exited owner does not hold the queue's lock; the task
\* leaves the queue only by the steal() of another worker, which then
\* executes it; under fair scheduling every task left behind is eventually
\* stolen and executed, and all of this has happened when run() returns.
LeftInQueue == {id \in left_behind : \E q \in Workers : id \in Queued(q)}

LeftTaskDone(id) ==
    /\ taken_how[id] = "steal"
    /\ taken_by[id] \in Workers \ {home[id], DesignatedWorker}
    /\ exec_count[id] = 1
    /\ exec_by[id] = taken_by[id]

LeftAndTaken(id) ==
    /\ taken_how[id] = "steal"
    /\ taken_by[id] \in Workers \ {home[id], DesignatedWorker}
    /\ exec_count[id] = 0 =>
            (task[taken_by[id]] = id /\ pc[taken_by[id]] # "done")
    /\ exec_count[id] > 0 => LeftTaskDone(id)

LeftStillQueued(id) ==
    /\ id \in Queued(home[id])
    /\ pc[home[id]] = "done"
    /\ lock[home[id]] # home[id]
    /\ main_pc = "join"
    /\ \E w \in Workers \ {home[id], DesignatedWorker} : pc[w] # "done"

LeftBehindSafe ==
    /\ left_behind \subseteq TaskIds
    /\ \A id \in LeftInQueue : LeftStillQueued(id)
    /\ \A id \in left_behind \ LeftInQueue : LeftAndTaken(id)
    /\ main_pc = "returned" => \A id \in left_behind : LeftTaskDone(id)

LeftBehindNotLost ==
    /\ []LeftBehindSafe
    /\ (LeftInQueue # {}) ~>
            (main_pc = "join" /\ \A id \in left_behind : LeftTaskDone(id))

\* Worker 1 has exited with a task in its queue, and worker 2 has since
\* stolen that task and finished executing it, before run() returns.
LeftBehindNotLostWitness ==
    /\ main_pc = "join"
    /\ \E id \in left_behind :
            /\ home[id] = 1
            /\ pc[1] = "done"
            /\ exec_by[id] = 2
            /\ LeftTaskDone(id)

\* C32: queues never grow during run().  From the start of run() on, every
\* step leaves each queue as it was or removes one task from it, so no task
\* is ever put into a queue (a stolen task stays with the thief until it is
\* executed); a task that has been removed from a queue is in no queue, and
\* no task is removed from a queue more than once.
NeverRequeued ==
    \A id \in TaskIds :
        /\ pop_count[id] <= 1
        /\ pop_count[id] = 1 <=> taken_how[id] # "none"
        /\ pop_count[id] = 1 => \A q \in Workers : id \notin Queued(q)
        /\ (pop_count[id] = 0 /\ main_pc \in {"join", "returned"}) =>
                id \in Queued(home[id])

OnlyRemovals ==
    \A q \in Workers :
        /\ Len(tasks'[q]) <= Len(tasks[q])
        /\ Queued(q)' \subseteq Queued(q)
        /\ \A id \in Queued(q) \ Queued(q)' :
                pop_count'[id] = pop_count[id] + 1

QueuesNeverGrow ==
    /\ []NeverRequeued
    /\ [][(main_pc \in {"join", "returned"}) => OnlyRemovals]_vars

\* A thief is executing a stolen task while its own queue and the queue it
\* stole from are both empty: the stolen task was not put into any queue.
QueuesNeverGrowWitness ==
    \E w \in Workers : \E id \in TaskIds :
        /\ pc[w] = "exec"
        /\ task[w] = id
        /\ taken_how[id] = "steal"
        /\ tasks[w] = <<>>
        /\ tasks[home[id]] = <<>>
        /\ \E other \in TaskIds : pop_count[other] = 1 /\ exec_count[other] = 1

\* C33: whenever no thread holds a queue's mutex the queue's size counter
\* equals the length of its deque; during run() the counter is never below
\* the length, so a counter of 0 means the deque is empty, and every queue a
\* worker has read as size() == 0 in its termination check holds no task.
SizeAtLockGranularity ==
    \A q \in Workers :
        /\ lock[q] = NoOne => size[q] = Len(tasks[q])
        /\ main_pc \in {"join", "returned"} =>
              /\ size[q] >= Len(tasks[q])
              /\ size[q] = 0 => tasks[q] = <<>>
              /\ \A w \in Workers : q \in obs_empty[w] => tasks[q] = <<>>

\* During run() a worker has read size() == 0 on an empty queue while the
\* mutex of another queue is held by a remover whose decrement is pending,
\* so that queue's counter is above its length.
SizeAtLockGranularityWitness ==
    \E w, q, r \in Workers :
        /\ main_pc = "join"
        /\ q \in obs_empty[w]
        /\ lock[q] = NoOne
        /\ lock[r] \in Workers
        /\ size[r] = Len(tasks[r]) + 1

\* C34: in every state tasks_completed <= total_tasks and tasks_stolen <=
\* total_tasks; tasks_stolen is the number of successful steals so far,
\* tasks_completed the number of finished executions, and tasks_stolen is at
\* most tasks_completed plus the number of stolen tasks being executed.
StolenTasks == {id \in TaskIds : taken_how[id] = "steal"}

FinishedTasks == {id \in TaskIds : exec_count[id] >= 1}

StolenExecuting ==
    {id \in StolenTasks : \E w \in Workers : task[w] = id /\ pc[w] = "exec"}

CounterBounds ==
    /\ tasks_completed <= total_tasks
    /\ tasks_stolen <= total_tasks
    /\ tasks_stolen = Cardinality(StolenTasks)
    /\ tasks_completed = Cardinality(FinishedTasks)
    /\ tasks_stolen <= tasks_completed + Cardinality(StolenExecuting)

\* C34, as the code has it: tasks_stolen is incremented by the thief after
\* steal() has returned, so it is the number of successful steals less the
\* stolen tasks whose thief has not yet reached its fetch_add; the bounds
\* and the count of finished executions are as claimed.
StolenUncounted ==
    {id \in StolenTasks :
        \E w \in Workers : task[w] = id /\ pc[w] \in {"steal_size", "stolen"}}

CounterBoundsTagged ==
    /\ tasks_completed <= total_tasks
    /\ tasks_stolen <= total_tasks
    /\ tasks_stolen = Cardinality(StolenTasks) - Cardinality(StolenUncounted)
    /\ \A id \in TaskIds :
            stolen_incs[id] = (IF id \in StolenTasks \ StolenUncounted THEN 1 ELSE 0)
    /\ tasks_completed = Cardinality(FinishedTasks)
    /\ \A id \in TaskIds : exec_count[id] <= 1
    /\ tasks_stolen <= tasks_completed + Cardinality(StolenExecuting)
    /\ tasks_stolen =
          Cardinality(FinishedTasks \cap StolenTasks) + Cardinality(StolenExecuting)

\* One thief is executing a stolen task that has been counted while another
\* thief has returned from a successful steal() and not yet counted it.
CounterBoundsTaggedWitness ==
    /\ tasks_stolen >= 1
    /\ StolenExecuting # {}
    /\ \E w \in Workers : pc[w] = "stolen"
    /\ tasks_stolen = Cardinality(StolenTasks) - 1

\* C35: Complete is absorbing: once next() has returned None the generator
\* stays Complete and every later next() returns None without calling the
\* generator function.  A range generator yields start, start + 1, ...,
\* end - 1 in that order and only then None, and nothing when start >= end.
RangeLen == IF gen_end > gen_start THEN gen_end - gen_start ELSE 0

RangeYielded ==
    /\ Len(gen_out) <= RangeLen
    /\ \A i \in 1 .. Len(gen_out) : gen_out[i] = gen_start + i - 1
    /\ gen_nones > 0 => (gen_state = "Complete" /\ Len(gen_out) = RangeLen)
    /\ gen_state = "Complete" => (gen_nones > 0 /\ gen_calls = RangeLen + 1)
    /\ gen_start >= gen_end => gen_out = <<>>

CompleteAbsorbs ==
    /\ gen_state' = "Complete"
    /\ gen_calls' = gen_calls
    /\ gen_out' = gen_out
    /\ gen_nones' >= gen_nones

RangeGenerator ==
    /\ []RangeYielded
    /\ [][(gen_state = "Complete") => CompleteAbsorbs]_vars

\* A generator for a range of three values has yielded them in order, then
\* None, and next() has been called twice more.
RangeGeneratorWitness ==
    /\ gen_state = "Complete"
    /\ gen_out = <<gen_start, gen_start + 1, gen_start + 2>>
    /\ gen_end = gen_start + 3
    /\ gen_calls = 4
    /\ gen_nones = 3

\* C36: whatever the state and the event, transition changes the state only
\* along Red -SwitchToGreen-> Green -SwitchToYellow-> Yellow -SwitchToRed->
\* Red and leaves it unchanged for every other pair: Red is never followed
\* directly by Yellow, Green never by Red, Yellow never by Green.
LightEdges ==
    {<<"Red", "SwitchToGreen", "Green">>,
     <<"Green", "SwitchToYellow", "Yellow">>,
     <<"Yellow", "SwitchToRed", "Red">>}

LightStepOk(i) ==
    LET from == light_trace[i]
        event == light_events[i]
        to == light_trace[i + 1]
    IN  /\ to \in TrafficLightState
        /\ to # from => <<from, event, to>> \in LightEdges
        /\ (\E t \in TrafficLightState : <<from, event, t>> \in LightEdges) =>
                <<from, event, to>> \in LightEdges
        /\ <<from, to>> \notin {<<"Red", "Yellow">>, <<"Green", "Red">>,
                                <<"Yellow", "Green">>}

TrafficLightEdges ==
    light_pc = "made" =>
        /\ Len(light_trace) = Len(light_events) + 1
        /\ light_state = light_trace[Len(light_trace)]
        /\ \A i \in 1 .. Len(light_events) : LightStepOk(i)

\* A light made Red has gone round the cycle and has then been passed
\* SwitchToRed while Red, which left it Red.
TrafficLightEdgesWitness ==
    /\ light_trace = <<"Red", "Green", "Yellow", "Red", "Red">>
    /\ light_events = <<"SwitchToGreen", "SwitchToYellow", "SwitchToRed",
                        "SwitchToRed">>

\* C37: with no spurious wakeup, no thread is past the barrier (woken from
\* wait, or on its way to the semaphore increment) before all num_threads
\* threads have incremented shared_data; the thread that makes the count
\* reach num_threads calls notify_all while every other thread is blocked in
\* wait, so no wakeup is lost; every thread finishes and when main's joins
\* have returned the semaphore counter is num_threads.
PastBarrier(t) ==
    sync_pc[t] \in {"woken", "wait_ret", "lock_sem", "add_sem", "end", "done"}

BarrierSafe ==
    /\ \A t \in SyncThreads : PastBarrier(t) => shared_data = num_threads
    /\ \A t \in SyncThreads :
            sync_pc[t] = "notify" => waiters = SyncThreads \ {t}
    /\ \A t \in SyncThreads : sync_pc[t] = "waiting" <=> t \in waiters
    /\ (\E t \in SyncThreads : PastBarrier(t)) =>
            /\ waiters = {}
            /\ Cardinality(notified) = num_threads - 1
            /\ \A t \in SyncThreads : PastBarrier(t)
    /\ shared_data = Cardinality({t \in SyncThreads :
            sync_pc[t] \notin {"unborn", "lock", "add"}})
    /\ semaphore = Cardinality({t \in SyncThreads :
            sync_pc[t] \in {"end", "done"}})
    /\ sync_main = "end" => semaphore = num_threads

CondvarBarrier ==
    /\ []BarrierSafe
    /\ (sync_main = "join") ~> (sync_main = "end" /\ semaphore = num_threads)

\* The joins have returned: the last thread to increment shared_data found
\* the seven others waiting and every thread has incremented the semaphore.
CondvarBarrierWitness ==
    /\ sync_main = "end"
    /\ shared_data = num_threads
    /\ semaphore = num_threads
    /\ Cardinality(notified) = num_threads - 1

\* C38: Worker::pop (Deque::pop_front) removes and returns the oldest item
\* of the deque, the one at index 0, and Worker::steal (Deque::pop_back)
\* the newest, so a worker's own jobs come out in the order they were
\* pushed and steal takes from the opposite end.
DequeEnds ==
    \A k \in 1 .. Len(removed) :
        LET r == removed[k] IN
            /\ r.before = <<>> => r.item = None
            /\ (r.before # <<>> /\ r.how = "pop") => r.item = r.before[1]
            /\ (r.before # <<>> /\ r.how = "steal") =>
                    r.item = r.before[Len(r.before)]

\* C39: for every pool size n >= 1 the thread_index spawn computes is a
\* valid index (< n), spawn never panics, and the job is appended to
\* exactly one worker's deque while every other deque stays as it was.
SpawnAppendsOne ==
    (next_job' = next_job + 1) =>
        \E i \in 1 .. Len(workers) :
            /\ workers' = [workers EXCEPT ![i] = Append(@, next_job)]

SpawnIndexValid ==
    /\ [](Len(workers) >= 1 =>
            /\ pool_pc # "panicked"
            /\ thread_index # None => thread_index < Len(workers))
    /\ [][Len(workers) >= 1 => SpawnAppendsOne]_vars
====
